----------------------- MODULE CoverArtSessionsProofs -----------------------
(***************************************************************************)
(* What CoverArtSessions promises, for any finite number of players and    *)
(* devices, any number of ports and paths, and whatever its bounds.        *)
(*                                                                         *)
(* A critical section of mutex_ is a function of a record of the state;    *)
(* the lemmas say what each one does to the fields of such a record, and   *)
(* then that it keeps the record sound.                                    *)
(***************************************************************************)
EXTENDS CoverArtSessions, FiniteSetTheorems, TLAPS

States == [players : [Players -> ObexPorts \cup {0}],
           sessions : [Devices -> Session \cup {None}],
           live : [Paths -> Live \cup {None}],
           signals : Seq(Signal)]

\* The registered players of a device, in a record of the state.
UsersOf(s, d) == {p \in Players : s.players[p] # 0 /\ DeviceOf[p] = d}

Counted(s) ==
    \A d \in Devices : s.sessions[d] # None =>
      /\ s.sessions[d].users >= 1
      /\ s.sessions[d].users <= Cardinality(UsersOf(s, d))

Separate(s) ==
    \A x, y \in Paths : x # y /\ s.live[x] # None /\ s.live[y] # None
                         /\ ~s.live[x].late /\ ~s.live[y].late =>
      s.live[x].device # s.live[y].device \/ s.live[x].port # s.live[y].port

Within(s, taken) == {x \in Paths : s.live[x] # None} \subseteq taken

\* The types, and the invariants that need nothing but themselves; taken are
\* the paths obexd has given.
Sound(s, taken) ==
    /\ s \in States /\ taken \subseteq Paths
    /\ Within(s, taken)
    /\ Counted(s) /\ Separate(s)

----------------------------------------------------------------------------
(* What the critical sections do to the fields                             *)

\* Whether the session of device d is obexd's, ours, and to be removed.
Removed(s, d) ==
    LET session == s.sessions[d] IN
    /\ session.owned
    /\ s.live[session.path] # None /\ s.live[session.path].ours
    /\ session.path \notin deaf

LEMMA CloseIs ==
  ASSUME NEW s \in States, NEW d \in Devices, s.sessions[d] # None
  PROVE  LET c == Close(s, d)
             path == s.sessions[d].path
         IN /\ c \in States
            /\ c.players = s.players
            /\ c.sessions = [s.sessions EXCEPT ![d] = None]
            /\ Removed(s, d) => /\ c.live = [s.live EXCEPT ![path] = None]
                                /\ c.signals = Append(s.signals, path)
            /\ ~Removed(s, d) => c.live = s.live /\ c.signals = s.signals
<1> DEFINE path == s.sessions[d].path
           f == [s EXCEPT !.sessions[d] = None]
<1>1. /\ s.sessions[d] \in Session /\ path \in Paths
      /\ f \in States /\ f.players = s.players /\ f.live = s.live
      /\ f.signals = s.signals
      /\ f.sessions = [s.sessions EXCEPT ![d] = None]
  BY DEF States, Session
<1>2. CASE ~Removed(s, d)
  <2>1. Close(s, d) = f
    BY <1>1, <1>2 DEF Close, RemoveSession, Removed
  <2> QED BY <1>1, <1>2, <2>1
<1>3. CASE Removed(s, d)
  <2> DEFINE r == [f EXCEPT !.live[path] = None, !.signals = Append(@, path)]
  <2>1. Close(s, d) = r
    BY <1>1, <1>3 DEF Close, RemoveSession, Removed
  <2>2. Append(s.signals, path) \in Seq(Signal)
    BY <1>1 DEF States, Signal
  <2>3. /\ r.players = s.players /\ r.sessions = f.sessions
        /\ r.live = [s.live EXCEPT ![path] = None]
        /\ r.signals = Append(s.signals, path)
    BY <1>1 DEF States
  <2>4. r \in States
    BY <1>1, <2>2 DEF States
  <2> QED BY <1>1, <1>3, <2>1, <2>3, <2>4
<1> QED BY <1>2, <1>3

LEMMA CloseEnds ==
  ASSUME NEW s \in States, NEW d \in Devices, s.sessions[d] # None,
         NEW path, path = s.sessions[d].path, Removed(s, d)
  PROVE  /\ Close(s, d).live = [s.live EXCEPT ![path] = None]
         /\ Close(s, d).signals = Append(s.signals, path)
BY CloseIs

LEMMA CloseForgets ==
  ASSUME NEW s \in States, NEW d \in Devices, s.sessions[d] # None, ~Removed(s, d)
  PROVE  Close(s, d).live = s.live /\ Close(s, d).signals = s.signals
BY CloseIs

\* A session of a record that is closed is one less.
LEMMA CloseSessions ==
  ASSUME NEW s \in States, NEW d \in Devices, s.sessions[d] # None
  PROVE  /\ Close(s, d) \in States
         /\ Close(s, d).players = s.players
         /\ Close(s, d).sessions = [s.sessions EXCEPT ![d] = None]
         /\ \A x \in Paths : Close(s, d).live[x] # None =>
              Close(s, d).live[x] = s.live[x]
<1>1. s.sessions[d].path \in Paths
  BY DEF States, Session
<1>2. \A x \in Paths : Close(s, d).live[x] # None => Close(s, d).live[x] = s.live[x]
  <2>1. CASE Removed(s, d)
    <3>1. Close(s, d).live = [s.live EXCEPT ![s.sessions[d].path] = None]
      BY <2>1, CloseIs
    <3> QED BY <3>1 DEF States
  <2>2. CASE ~Removed(s, d)
    <3>1. Close(s, d).live = s.live
      BY <2>2, CloseIs
    <3> QED BY <3>1
  <2> QED BY <2>1, <2>2
<1>3. Close(s, d) \in States /\ Close(s, d).players = s.players
      /\ Close(s, d).sessions = [s.sessions EXCEPT ![d] = None]
  BY CloseIs
<1> QED BY <1>2, <1>3

\* The players of a device are finitely many, one less without p.
LEMMA UsersFinite ==
  ASSUME layout \in Layouts, NEW s \in States, NEW d \in Devices
  PROVE  IsFiniteSet(UsersOf(s, d)) /\ Cardinality(UsersOf(s, d)) \in Nat
<1>1. UsersOf(s, d) \in SUBSET Players
  BY DEF UsersOf
<1> QED BY <1>1, FS_Subset, FS_CardinalityType, CoverArtAssumption

LEMMA UserLeaves ==
  ASSUME layout \in Layouts, NEW s \in States, NEW t \in States,
         NEW p \in Players, s.players[p] # 0,
         t.players = [s.players EXCEPT ![p] = 0]
  PROVE  /\ Cardinality(UsersOf(t, DeviceOf[p]))
              = Cardinality(UsersOf(s, DeviceOf[p])) - 1
         /\ \A d \in Devices : d # DeviceOf[p] => UsersOf(t, d) = UsersOf(s, d)
<1>1. DeviceOf[p] \in Devices
  BY CoverArtAssumption DEF DeviceOf
<1>2. UsersOf(t, DeviceOf[p]) = UsersOf(s, DeviceOf[p]) \ {p}
  BY DEF UsersOf, States
<1>3. p \in UsersOf(s, DeviceOf[p])
  BY DEF UsersOf
<1>4. \A d \in Devices : d # DeviceOf[p] => UsersOf(t, d) = UsersOf(s, d)
  BY DEF UsersOf, States
<1>5. IsFiniteSet(UsersOf(s, DeviceOf[p]))
  BY <1>1, UsersFinite
<1>6. Cardinality(UsersOf(s, DeviceOf[p]) \ {p})
        = Cardinality(UsersOf(s, DeviceOf[p])) - 1
  BY <1>3, <1>5, FS_RemoveElement
<1> QED BY <1>2, <1>4, <1>6

LEMMA UserJoins ==
  ASSUME layout \in Layouts, NEW s \in States, NEW t \in States,
         NEW p \in Players, s.players[p] = 0, NEW n \in ObexPorts,
         t.players = [s.players EXCEPT ![p] = n]
  PROVE  /\ Cardinality(UsersOf(t, DeviceOf[p]))
              = Cardinality(UsersOf(s, DeviceOf[p])) + 1
         /\ \A d \in Devices : d # DeviceOf[p] => UsersOf(t, d) = UsersOf(s, d)
<1>1. DeviceOf[p] \in Devices /\ n # 0
  BY CoverArtAssumption DEF DeviceOf
<1>2. UsersOf(t, DeviceOf[p]) = UsersOf(s, DeviceOf[p]) \cup {p}
  BY <1>1 DEF UsersOf, States
<1>3. p \notin UsersOf(s, DeviceOf[p])
  BY DEF UsersOf
<1>4. \A d \in Devices : d # DeviceOf[p] => UsersOf(t, d) = UsersOf(s, d)
  BY DEF UsersOf, States
<1>5. IsFiniteSet(UsersOf(s, DeviceOf[p]))
  BY <1>1, UsersFinite
<1>6. Cardinality(UsersOf(s, DeviceOf[p]) \cup {p})
        = Cardinality(UsersOf(s, DeviceOf[p])) + 1
  BY <1>3, <1>5, FS_AddElement
<1> QED BY <1>2, <1>4, <1>6

\* Unregistering ends a record, keeps it, or changes its count.
LEMMA UnregisteredIs ==
  ASSUME layout \in Layouts, NEW s \in States, NEW p \in Players
  PROVE  LET d == DeviceOf[p]
             u == Unregistered(s, p)
             left == [s EXCEPT !.players[p] = 0]
         IN /\ d \in Devices
            /\ left \in States /\ left.players = [s.players EXCEPT ![p] = 0]
            /\ left.sessions = s.sessions /\ left.live = s.live
            /\ left.signals = s.signals
            /\ \/ s.players[p] = 0 /\ u = s
               \/ s.players[p] # 0 /\ s.sessions[d] = None /\ u = left
               \/ /\ s.players[p] # 0 /\ s.sessions[d] # None
                  /\ s.sessions[d].users > 1
                  /\ u = [left EXCEPT !.sessions[d].users = @ - 1]
               \/ /\ s.players[p] # 0 /\ s.sessions[d] # None
                  /\ ~(s.sessions[d].users > 1)
                  /\ u = Close(left, d)
<1>1. DeviceOf[p] \in Devices
  BY CoverArtAssumption DEF DeviceOf
<1> DEFINE left == [s EXCEPT !.players[p] = 0]
<1>2. left \in States /\ left.players = [s.players EXCEPT ![p] = 0]
      /\ left.sessions = s.sessions /\ left.live = s.live
      /\ left.signals = s.signals
  BY DEF States
<1> HIDE DEF left
<1>3. Unregistered(s, p) =
        IF s.players[p] = 0 THEN s
        ELSE IF s.sessions[DeviceOf[p]] = None THEN left
        ELSE IF s.sessions[DeviceOf[p]].users > 1
             THEN [left EXCEPT !.sessions[DeviceOf[p]].users = @ - 1]
             ELSE Close(left, DeviceOf[p])
  BY <1>2 DEF Unregistered, left
<1> QED BY <1>1, <1>2, <1>3 DEF left

\* The session a registration finds or makes.
Made(u, d, n, path) ==
    IF Matching(u, d, n) = {}
    THEN [u EXCEPT !.live[path] = Fresh(d, n)]
    ELSE u

Recorded(u, d, n, path) ==
    [path |-> path, port |-> n, owned |-> Matching(u, d, n) = {},
     users |-> IF u.sessions[d] = None THEN 1 ELSE u.sessions[d].users + 1]

Entered(b, d, v, p, n) ==
    [[b EXCEPT !.sessions[d] = v] EXCEPT !.players[p] = n]

\* What a registration enters the player into, and with which session: the same
\* one with another user, a first one, or one that replaces another.
Base(u, d, n, path) ==
    IF u.sessions[d] # None /\ u.sessions[d].port = n THEN u
    ELSE IF u.sessions[d] = None THEN Made(u, d, n, path)
    ELSE Close(Made(u, d, n, path), d)

Value(u, d, n, path) ==
    IF u.sessions[d] # None /\ u.sessions[d].port = n
    THEN [u.sessions[d] EXCEPT !.users = @ + 1]
    ELSE Recorded(u, d, n, path)

LEMMA RegisteredIs ==
  ASSUME NEW s, NEW p, NEW n, NEW path, NEW u, u = Unregistered(s, p)
  PROVE  Registered(s, p, n, path) =
           Entered(Base(u, DeviceOf[p], n, path), DeviceOf[p],
                   Value(u, DeviceOf[p], n, path), p, n)
<1> DEFINE d == DeviceOf[p]
           made == Made(u, d, n, path)
           new == Recorded(u, d, n, path)
           opened == IF u.sessions[d] # None /\ u.sessions[d].port = n
                     THEN [u EXCEPT !.sessions[d].users = @ + 1]
                     ELSE [(IF u.sessions[d] = None THEN made ELSE Close(made, d))
                             EXCEPT !.sessions[d] = new]
<1>1. Registered(s, p, n, path) = [opened EXCEPT !.players[p] = n]
  BY DEF Registered, Made, Recorded, Fresh
<1> HIDE DEF d, made, new
<1>2. CASE u.sessions[d] # None /\ u.sessions[d].port = n
  <2>1. opened = [u EXCEPT !.sessions[d] = [u.sessions[d] EXCEPT !.users = @ + 1]]
    BY <1>2
  <2>2. Base(u, d, n, path) = u
        /\ Value(u, d, n, path) = [u.sessions[d] EXCEPT !.users = @ + 1]
    BY <1>2 DEF Base, Value
  <2> QED BY <1>1, <2>1, <2>2 DEF Entered, d
<1>3. CASE u.sessions[d] = None
  <2>1. opened = [made EXCEPT !.sessions[d] = new]
    BY <1>3
  <2>2. Base(u, d, n, path) = made /\ Value(u, d, n, path) = new
    BY <1>3 DEF Base, Value, made, new
  <2> QED BY <1>1, <2>1, <2>2 DEF Entered, d
<1>4. CASE u.sessions[d] # None /\ u.sessions[d].port # n
  <2>1. opened = [Close(made, d) EXCEPT !.sessions[d] = new]
    BY <1>4
  <2>2. Base(u, d, n, path) = Close(made, d) /\ Value(u, d, n, path) = new
    BY <1>4 DEF Base, Value, made, new
  <2> QED BY <1>1, <2>1, <2>2 DEF Entered, d
<1> QED BY <1>2, <1>3, <1>4

----------------------------------------------------------------------------
(* They keep the record sound                                              *)

\* Sessions that end cannot collide.
LEMMA FewerLive ==
  ASSUME NEW s \in States, NEW t \in States, NEW taken,
         Within(s, taken), Separate(s),
         \A x \in Paths : t.live[x] # None => t.live[x] = s.live[x]
  PROVE  Within(t, taken) /\ Separate(t)
BY DEF Separate, Within

LEMMA UnregisteredSound ==
  ASSUME layout \in Layouts, NEW s, NEW taken, Sound(s, taken), NEW p \in Players
  PROVE  /\ Sound(Unregistered(s, p), taken)
         /\ Unregistered(s, p).players = [s.players EXCEPT ![p] = 0]
         /\ \A x \in Paths : Unregistered(s, p).live[x] # None =>
              Unregistered(s, p).live[x] = s.live[x]
<1> DEFINE d == DeviceOf[p]
           u == Unregistered(s, p)
           left == [s EXCEPT !.players[p] = 0]
<1>0. s \in States /\ d \in Devices
  BY UnregisteredIs DEF Sound
<1>1. /\ left \in States /\ left.players = [s.players EXCEPT ![p] = 0]
      /\ left.sessions = s.sessions /\ left.live = s.live
  BY <1>0, UnregisteredIs
<1>2. s.players[p] # 0 =>
        /\ Cardinality(UsersOf(left, d)) = Cardinality(UsersOf(s, d)) - 1
        /\ \A e \in Devices : e # d => UsersOf(left, e) = UsersOf(s, e)
  BY <1>0, <1>1, UserLeaves
<1>3. \A e \in Devices : Cardinality(UsersOf(s, e)) \in Nat
  BY <1>0, UsersFinite
<1> HIDE DEF left, u, d
<1>4. CASE s.players[p] = 0 /\ u = s
  <2>1. s.players = [s.players EXCEPT ![p] = 0]
    BY <1>0, <1>4 DEF States
  <2> QED BY <1>4, <2>1 DEF u
<1>5. CASE s.players[p] # 0 /\ s.sessions[d] = None /\ u = left
  <2>1. Counted(u)
    <3> SUFFICES ASSUME NEW e \in Devices, u.sessions[e] # None
                 PROVE  /\ u.sessions[e].users >= 1
                        /\ u.sessions[e].users <= Cardinality(UsersOf(u, e))
      BY DEF Counted
    <3>1. e # d /\ UsersOf(u, e) = UsersOf(s, e)
      BY <1>1, <1>2, <1>5
    <3> QED BY <1>1, <1>5, <3>1 DEF Sound, Counted
  <2>2. Separate(u) /\ Within(u, taken)
    BY <1>1, <1>5 DEF Sound, Separate, Within
  <2> QED BY <1>1, <1>5, <2>1, <2>2 DEF Sound, u
<1>6. CASE /\ s.players[p] # 0 /\ s.sessions[d] # None /\ s.sessions[d].users > 1
           /\ u = [left EXCEPT !.sessions[d].users = @ - 1]
  <2>1. s.sessions[d] \in Session
    BY <1>0, <1>6 DEF States
  <2>2. [s.sessions[d] EXCEPT !.users = @ - 1] \in Session
    BY <1>6, <2>1 DEF Session
  <2>3. /\ u.sessions = [s.sessions EXCEPT ![d] =
                           [s.sessions[d] EXCEPT !.users = @ - 1]]
        /\ u.players = left.players /\ u.live = s.live /\ u \in States
    BY <1>0, <1>1, <1>6, <2>2 DEF States
  <2>4. \A e \in Devices : UsersOf(u, e) = UsersOf(left, e)
    BY <2>3 DEF UsersOf
  <2>5. Counted(u)
    <3> SUFFICES ASSUME NEW e \in Devices, u.sessions[e] # None
                 PROVE  /\ u.sessions[e].users >= 1
                        /\ u.sessions[e].users <= Cardinality(UsersOf(u, e))
      BY DEF Counted
    <3>1. CASE e = d
      <4>1. u.sessions[e].users = s.sessions[d].users - 1
        BY <1>0, <2>1, <2>3, <3>1 DEF States, Session
      <4>2. s.sessions[d].users <= Cardinality(UsersOf(s, d))
        BY <1>0, <1>6 DEF Sound, Counted
      <4> QED
        BY <1>0, <1>2, <1>3, <1>6, <2>1, <2>4, <3>1, <4>1, <4>2 DEF Session
    <3>2. CASE e # d
      BY <1>0, <1>2, <1>6, <2>3, <2>4, <3>2 DEF Sound, Counted, States
    <3> QED BY <3>1, <3>2
  <2>6. Separate(u) /\ Within(u, taken)
    BY <2>3 DEF Sound, Separate, Within
  <2> QED BY <1>1, <2>3, <2>5, <2>6 DEF Sound, u
<1>7. CASE /\ s.players[p] # 0 /\ s.sessions[d] # None
           /\ u = Close(left, d)
  <2>1. /\ u \in States /\ u.players = left.players
        /\ u.sessions = [s.sessions EXCEPT ![d] = None]
        /\ \A x \in Paths : u.live[x] # None => u.live[x] = s.live[x]
    BY <1>0, <1>1, <1>7, CloseSessions
  <2>2. Counted(u)
    <3> SUFFICES ASSUME NEW e \in Devices, u.sessions[e] # None
                 PROVE  /\ u.sessions[e].users >= 1
                        /\ u.sessions[e].users <= Cardinality(UsersOf(u, e))
      BY DEF Counted
    <3>1. e # d /\ u.sessions[e] = s.sessions[e]
      BY <1>0, <2>1 DEF States
    <3>2. UsersOf(u, e) = UsersOf(s, e)
      BY <1>2, <1>7, <2>1, <3>1 DEF UsersOf
    <3> QED BY <3>1, <3>2 DEF Sound, Counted
  <2>3. Separate(u) /\ Within(u, taken)
    BY <1>0, <2>1, FewerLive DEF Sound
  <2> QED BY <1>1, <2>1, <2>2, <2>3 DEF Sound, u
<1> QED
  BY <1>0, <1>4, <1>5, <1>6, <1>7, UnregisteredIs DEF u, d, left

\* A player that enters a record whose session of its device becomes v.
LEMMA EnterSound ==
  ASSUME layout \in Layouts, NEW u, NEW taken, Sound(u, taken),
         NEW p \in Players, NEW n \in ObexPorts, u.players[p] = 0,
         NEW b \in States, b.players = u.players,
         \A e \in Devices : e # DeviceOf[p] => b.sessions[e] = u.sessions[e],
         NEW v \in Session, v.users >= 1,
         v.users <= Cardinality(UsersOf(u, DeviceOf[p])) + 1,
         NEW then \in SUBSET Paths, Separate(b),
         Within(b, then)
  PROVE  /\ Sound(Entered(b, DeviceOf[p], v, p, n), then)
         /\ Entered(b, DeviceOf[p], v, p, n).live = b.live
<1> DEFINE d == DeviceOf[p]
           r == Entered(b, d, v, p, n)
<1>0. d \in Devices /\ u \in States
  BY CoverArtAssumption DEF DeviceOf, Sound
<1>1. /\ r \in States /\ r.players = [u.players EXCEPT ![p] = n]
      /\ r.sessions = [b.sessions EXCEPT ![d] = v]
      /\ r.live = b.live
  BY <1>0 DEF States, Entered
<1> HIDE DEF r
<1>2. /\ Cardinality(UsersOf(r, d)) = Cardinality(UsersOf(u, d)) + 1
      /\ \A e \in Devices : e # d => UsersOf(r, e) = UsersOf(u, e)
  BY <1>0, <1>1, UserJoins
<1>3. Counted(r)
  <2> SUFFICES ASSUME NEW e \in Devices, r.sessions[e] # None
               PROVE  /\ r.sessions[e].users >= 1
                      /\ r.sessions[e].users <= Cardinality(UsersOf(r, e))
    BY DEF Counted
  <2>1. CASE e = d
    <3>1. r.sessions[e] = v
      BY <1>0, <1>1, <2>1 DEF States
    <3> QED BY <1>2, <2>1, <3>1
  <2>2. CASE e # d
    <3>1. r.sessions[e] = u.sessions[e]
      BY <1>1, <2>2 DEF States
    <3> QED BY <1>2, <2>2, <3>1 DEF Sound, Counted
  <2> QED BY <2>1, <2>2
<1>4. Separate(r) /\ Within(r, then)
  BY <1>1 DEF Separate, Within
<1> QED BY <1>1, <1>3, <1>4 DEF Sound, r

\* A session is made only where obexd has none to that device and port.
LEMMA MadeIs ==
  ASSUME NEW u, NEW taken, Sound(u, taken), NEW d \in Devices,
         NEW n \in ObexPorts, NEW path \in Paths
  PROVE  /\ Made(u, d, n, path) \in States
         /\ Made(u, d, n, path).players = u.players
         /\ Made(u, d, n, path).sessions = u.sessions
         /\ Made(u, d, n, path).signals = u.signals
         /\ Matching(u, d, n) = {} =>
              Made(u, d, n, path).live = [u.live EXCEPT ![path] =
                             Fresh(d, n)]
         /\ Matching(u, d, n) # {} => Made(u, d, n, path).live = u.live
         /\ Separate(Made(u, d, n, path))
         /\ Within(Made(u, d, n, path), taken \cup {path})
<1>1. CASE Matching(u, d, n) = {}
  <2> DEFINE new == Fresh(d, n)
             made == [u EXCEPT !.live[path] = new]
  <2>1. Made(u, d, n, path) = made
    BY <1>1 DEF Made
  <2>2. new \in Live /\ new.device = d /\ new.port = n
    BY DEF Live, Fresh
  <2>3. /\ made \in States /\ made.live = [u.live EXCEPT ![path] = new]
        /\ made.players = u.players /\ made.sessions = u.sessions
        /\ made.signals = u.signals
    BY <2>2 DEF Sound, States
  <2> HIDE DEF new, made
  <2>4. \A x \in Paths : u.live[x] # None => u.live[x].device # d \/ u.live[x].port # n
    BY <1>1 DEF Matching
  <2>5. \A x \in Paths : made.live[x] = IF x = path THEN new ELSE u.live[x]
    BY <2>3 DEF Sound, States
  <2>6. Separate(made)
    BY <2>2, <2>4, <2>5 DEF Separate, Sound
  <2>7. Within(made, taken \cup {path})
    BY <2>5 DEF Sound, Within
  <2> QED BY <1>1, <2>1, <2>3, <2>6, <2>7 DEF new
<1>2. CASE Matching(u, d, n) # {}
  <2>1. Made(u, d, n, path) = u
    BY <1>2 DEF Made
  <2> QED BY <1>2, <2>1 DEF Sound, Within
<1> QED BY <1>1, <1>2

LEMMA RegisteredSound ==
  ASSUME layout \in Layouts, NEW s, NEW taken, Sound(s, taken),
         NEW p \in Players, NEW n \in ObexPorts, NEW path \in Paths
  PROVE  LET r == Registered(s, p, n, path)
         IN Sound(r, taken \cup {x \in {path} : r.live[x] # None})
<1> DEFINE d == DeviceOf[p]
           u == Unregistered(s, p)
           made == Made(u, d, n, path)
           new == Recorded(u, d, n, path)
           r == Registered(s, p, n, path)
<1>0. d \in Devices /\ s \in States
  BY CoverArtAssumption DEF DeviceOf, Sound
<1>1. Sound(u, taken) /\ u.players[p] = 0 /\ u \in States
  <2>1. Sound(u, taken) /\ u.players = [s.players EXCEPT ![p] = 0]
    BY UnregisteredSound
  <2>2. u \in States
    BY <2>1 DEF Sound
  <2> QED BY <1>0, <2>1, <2>2 DEF States
<1> HIDE DEF d, u, r
<1>2. /\ made \in States /\ made.players = u.players
      /\ made.sessions = u.sessions /\ Separate(made)
      /\ Within(made, taken \cup {path})
  <2>1. Sound(u, taken) /\ d \in Devices
    BY <1>0, <1>1
  <2> HIDE DEF new
  <2>2. Made(u, d, n, path) \in States
    BY <2>1, MadeIs
  <2>3. Within(Made(u, d, n, path), taken \cup {path})
    BY <2>1, MadeIs
  <2>4. Separate(Made(u, d, n, path))
    BY <2>1, MadeIs
  <2>5. Made(u, d, n, path).players = u.players
        /\ Made(u, d, n, path).sessions = u.sessions
    BY <1>1 DEF Made, States
  <2> QED BY <2>2, <2>3, <2>4, <2>5
<1>3. /\ u.sessions[d] \in Session \cup {None}
      /\ u.sessions[d] # None =>
           u.sessions[d].users <= Cardinality(UsersOf(u, d))
      /\ Cardinality(UsersOf(u, d)) \in Nat
  BY <1>0, <1>1, UsersFinite DEF Sound, Counted, States
<1>4. /\ new \in Session /\ new.users >= 1
      /\ new.users <= Cardinality(UsersOf(u, d)) + 1
  BY <1>3 DEF Recorded, Session
<1>5. taken \cup {path} \in SUBSET Paths /\ taken \in SUBSET Paths
  BY DEF Sound
<1> HIDE DEF made, new
<1>5a. r = Entered(Base(u, d, n, path), d, Value(u, d, n, path), p, n)
  BY RegisteredIs DEF d, u, r
<1>6. CASE u.sessions[d] # None /\ u.sessions[d].port = n
  <2> DEFINE v == [u.sessions[d] EXCEPT !.users = @ + 1]
  <2>1. v \in Session /\ v.users = u.sessions[d].users + 1
    BY <1>3, <1>6 DEF Session
  <2>3. r = Entered(u, d, v, p, n)
    BY <1>6, <1>5a DEF Base, Value
  <2>4. v.users >= 1 /\ v.users <= Cardinality(UsersOf(u, d)) + 1
    BY <1>3, <1>6, <2>1 DEF Session
  <2>5. Separate(u) /\ Within(u, taken)
    BY <1>1 DEF Sound
  <2> HIDE DEF v
  <2>6. Sound(r, taken) /\ r.live = u.live
    BY <1>1, <1>5, <2>1, <2>3, <2>4, <2>5, EnterSound DEF d
  <2>7. taken \cup {x \in {path} : r.live[x] # None} = taken
    BY <2>5, <2>6 DEF Within
  <2> QED BY <2>6, <2>7 DEF r
<1>7. CASE u.sessions[d] = None
  <2> DEFINE then == taken \cup {x \in {path} : made.live[x] # None}
  <2>1. then \in SUBSET Paths /\ Within(made, then)
    BY <1>2, <1>5 DEF Within
  <2> HIDE DEF then
  <2>2. r = Entered(made, d, new, p, n)
    BY <1>7, <1>5a DEF Base, Value, made, new
  <2>3. Sound(r, then) /\ r.live = made.live
    BY <1>1, <1>2, <1>4, <2>1, <2>2, EnterSound DEF d
  <2> QED BY <2>3 DEF r, then
<1>8. CASE u.sessions[d] # None /\ u.sessions[d].port # n
  <2> DEFINE c == Close(made, d)
             then == taken \cup {x \in {path} : c.live[x] # None}
  <2>1. /\ c \in States /\ c.players = made.players
        /\ c.sessions = [made.sessions EXCEPT ![d] = None]
        /\ \A x \in Paths : c.live[x] # None => c.live[x] = made.live[x]
    BY <1>0, <1>2, <1>8, CloseSessions
  <2> HIDE DEF c
  <2>2. Within(c, taken \cup {path}) /\ Separate(c)
    BY <1>2, <2>1, FewerLive
  <2>3. then \in SUBSET Paths /\ Within(c, then)
    BY <1>5, <2>2 DEF Within
  <2>4. \A e \in Devices : e # d => c.sessions[e] = u.sessions[e]
    BY <1>1, <1>2, <2>1 DEF States
  <2>5. c.players = u.players
    BY <1>2, <2>1
  <2> HIDE DEF then
  <2>6. r = Entered(c, d, new, p, n) /\ c \in States
    BY <1>8, <1>5a, <2>1 DEF Base, Value, made, new, c
  <2>7. Sound(r, then) /\ r.live = c.live
    BY <1>1, <1>4, <2>2, <2>3, <2>4, <2>5, <2>6, EnterSound DEF d
  <2> QED BY <2>7 DEF r, then
<1> QED BY <1>6, <1>7, <1>8 DEF r

----------------------------------------------------------------------------
(* They keep the record of our own sessions                                *)

\* A session this client was told it has made, and that is removed when asked.
Own(s, x) ==
    s.live[x] # None /\ s.live[x].ours /\ ~s.live[x].late /\ x \notin deaf

\* Until obexd is started again: a session that has ended has a path that is not
\* given again, so that its signal concerns no other one; a record is about the
\* device and port of its session; and our sessions are recorded as owned.
Kept(s, taken) ==
    /\ \A x \in Range(s.signals) : x \in Paths /\ s.live[x] = None /\ x \in taken
    /\ \A d \in Devices : s.sessions[d] # None =>
         LET path == s.sessions[d].path IN
         /\ path \in taken
         /\ s.live[path] # None => /\ s.live[path].device = d
                                   /\ s.live[path].port = s.sessions[d].port
    /\ \A x \in Paths : Own(s, x) =>
         \E d \in Devices : s.sessions[d] # None /\ s.sessions[d].path = x
                            /\ s.sessions[d].owned

LEMMA RangeAppend ==
  ASSUME NEW T, NEW q \in Seq(T), NEW e
  PROVE  Range(Append(q, e)) = Range(q) \cup {e}
<1>1. /\ Len(q) \in Nat /\ DOMAIN q = 1..Len(q)
      /\ DOMAIN Append(q, e) = 1..Len(q) + 1
      /\ \A i \in 1..Len(q) : Append(q, e)[i] = q[i]
      /\ Append(q, e)[Len(q) + 1] = e
  OBVIOUS
<1>2. 1..Len(q) + 1 = (1..Len(q)) \cup {Len(q) + 1}
  BY <1>1
<1> QED BY <1>1, <1>2 DEF Range

LEMMA CloseKept ==
  ASSUME NEW s \in States, NEW taken, Kept(s, taken),
         NEW d \in Devices, s.sessions[d] # None
  PROVE  Kept(Close(s, d), taken)
<1> DEFINE path == s.sessions[d].path
           c == Close(s, d)
<1>1. s.sessions[d] \in Session /\ path \in Paths /\ path \in taken
  BY DEF States, Session, Kept
<1>2. c \in States /\ c.sessions = [s.sessions EXCEPT ![d] = None]
  BY CloseSessions
<1>3. \A e \in Devices : c.sessions[e] # None =>
        e # d /\ c.sessions[e] = s.sessions[e]
  BY <1>2 DEF States
<1>4. \A x \in Paths : c.live[x] # None => c.live[x] = s.live[x]
  BY CloseSessions
<1>5. \A x \in Range(c.signals) : x \in Paths /\ c.live[x] = None /\ x \in taken
  <2>1. CASE Removed(s, d)
    <3>1. c.live = [s.live EXCEPT ![path] = None]
          /\ c.signals = Append(s.signals, path)
      BY <2>1, CloseIs
    <3>2. Range(c.signals) = Range(s.signals) \cup {path}
      BY <3>1, RangeAppend DEF States
    <3> QED BY <1>1, <3>1, <3>2 DEF Kept, States
  <2>2. CASE ~Removed(s, d)
    <3>1. c.live = s.live /\ c.signals = s.signals
      BY <2>2, CloseIs
    <3> QED BY <3>1 DEF Kept
  <2> QED BY <2>1, <2>2
<1> HIDE DEF c
<1>6. ASSUME NEW e \in Devices, c.sessions[e] # None
      PROVE  /\ c.sessions[e].path \in taken
             /\ c.live[c.sessions[e].path] # None =>
                  /\ c.live[c.sessions[e].path].device = e
                  /\ c.live[c.sessions[e].path].port = c.sessions[e].port
  <2>1. s.sessions[e] # None /\ s.sessions[e] \in Session
        /\ s.sessions[e].path \in Paths /\ c.sessions[e] = s.sessions[e]
    BY <1>3, <1>6 DEF States, Session
  <2> QED BY <1>4, <2>1 DEF Kept
<1>7. ASSUME NEW x \in Paths, Own(c, x)
      PROVE  \E e \in Devices : c.sessions[e] # None /\ c.sessions[e].path = x
                                /\ c.sessions[e].owned
  <2>1. Own(s, x) /\ c.live[x] = s.live[x] /\ c.live[x] # None
    BY <1>4, <1>7 DEF Own
  <2>2. PICK e \in Devices : s.sessions[e] # None /\ s.sessions[e].path = x
                             /\ s.sessions[e].owned
    BY <2>1 DEF Kept
  <2>3. e # d
    <3> SUFFICES ASSUME e = d PROVE FALSE
      OBVIOUS
    <3>1. Removed(s, d)
      BY <2>1, <2>2 DEF Removed, Own
    <3>2. c.live = [s.live EXCEPT ![path] = None]
      BY <3>1, CloseIs DEF c
    <3> QED BY <2>1, <2>2, <3>2 DEF States
  <2>4. c.sessions[e] = s.sessions[e]
    BY <1>2, <2>3 DEF States
  <2> QED BY <2>2, <2>4
<1> QED BY <1>5, <1>6, <1>7 DEF Kept, c

\* Records that differ in their number of users.
Alike(a, b) ==
    /\ a # None <=> b # None
    /\ b # None => a.path = b.path /\ a.port = b.port /\ a.owned = b.owned

\* A record whose path is taken may be changed where nothing depends on it.
LEMMA SameKept ==
  ASSUME NEW s \in States, NEW t \in States, NEW taken, Kept(s, taken),
         NEW then, taken \subseteq then,
         t.live = s.live, t.signals = s.signals,
         \A d \in Devices : Alike(t.sessions[d], s.sessions[d])
  PROVE  Kept(t, then)
BY DEF Kept, Alike, Own

\* A session that was found is recorded, for a device that had none.
LEMMA FoundKept ==
  ASSUME NEW b \in States, NEW r \in States, NEW taken, Kept(b, taken),
         Within(b, taken), NEW then, taken \subseteq then,
         NEW d \in Devices, b.sessions[d] = None, NEW v \in Session,
         b.live[v.path] # None, b.live[v.path].device = d,
         b.live[v.path].port = v.port,
         r.live = b.live, r.signals = b.signals,
         r.sessions = [b.sessions EXCEPT ![d] = v]
  PROVE  Kept(r, then)
<1>1. v.path \in Paths /\ v.path \in taken
  BY DEF Within, Session
<1>2. \A e \in Devices : r.sessions[e] = IF e = d THEN v ELSE b.sessions[e]
  BY DEF States
<1>3. \A x \in Range(r.signals) : x \in Paths /\ r.live[x] = None /\ x \in then
  BY DEF Kept
<1>4. ASSUME NEW e \in Devices, r.sessions[e] # None
      PROVE  /\ r.sessions[e].path \in then
             /\ r.live[r.sessions[e].path] # None =>
                  /\ r.live[r.sessions[e].path].device = e
                  /\ r.live[r.sessions[e].path].port = r.sessions[e].port
  <2>1. CASE e = d
    BY <1>1, <1>2, <2>1
  <2>2. CASE e # d
    <3>1. r.sessions[e] = b.sessions[e]
      BY <1>2, <2>2
    <3> QED BY <1>4, <3>1 DEF Kept
  <2> QED BY <2>1, <2>2
<1>5. ASSUME NEW x \in Paths, Own(r, x)
      PROVE  \E e \in Devices : r.sessions[e] # None /\ r.sessions[e].path = x
                                /\ r.sessions[e].owned
  <2>1. PICK e \in Devices : b.sessions[e] # None /\ b.sessions[e].path = x
                             /\ b.sessions[e].owned
    BY <1>5 DEF Kept, Own
  <2> QED BY <1>2, <2>1
<1> QED BY <1>3, <1>4, <1>5 DEF Kept

\* A session that was made is recorded, for a device that had none.
LEMMA NewKept ==
  ASSUME NEW b \in States, NEW r \in States, NEW taken, Kept(b, taken),
         NEW d \in Devices, b.sessions[d] = None,
         NEW v \in Session, v # None, v.path \notin taken, v.owned,
         NEW then, taken \subseteq then, v.path \in then,
         r.live = [b.live EXCEPT ![v.path] = Fresh(d, v.port)],
         r.signals = b.signals,
         r.sessions = [b.sessions EXCEPT ![d] = v]
  PROVE  Kept(r, then)
<1>1. v.path \in Paths
  BY DEF Session
<1>2. \A e \in Devices : r.sessions[e] = IF e = d THEN v ELSE b.sessions[e]
  BY DEF States
<1>3. /\ \A x \in Paths : x # v.path => r.live[x] = b.live[x]
      /\ r.live[v.path] = Fresh(d, v.port)
  BY <1>1 DEF States
<1>4. ASSUME NEW x \in Range(r.signals)
      PROVE  x \in Paths /\ r.live[x] = None /\ x \in then
  <2>1. x \in Paths /\ b.live[x] = None /\ x \in taken
    BY <1>4 DEF Kept
  <2> QED BY <1>3, <2>1
<1>5. ASSUME NEW e \in Devices, r.sessions[e] # None
      PROVE  /\ r.sessions[e].path \in then
             /\ r.live[r.sessions[e].path] # None =>
                  /\ r.live[r.sessions[e].path].device = e
                  /\ r.live[r.sessions[e].path].port = r.sessions[e].port
  <2>1. CASE e = d
    BY <1>2, <1>3, <2>1 DEF Fresh
  <2>2. CASE e # d
    <3>1. r.sessions[e] = b.sessions[e] /\ b.sessions[e].path \in Paths
      BY <1>2, <1>5, <2>2 DEF States, Session
    <3>2. b.sessions[e].path \in taken
      BY <1>5, <3>1 DEF Kept
    <3>3. r.live[b.sessions[e].path] = b.live[b.sessions[e].path]
      BY <1>3, <3>1, <3>2
    <3> QED BY <1>5, <3>1, <3>2, <3>3 DEF Kept
  <2> QED BY <2>1, <2>2
<1>6. ASSUME NEW x \in Paths, Own(r, x)
      PROVE  \E e \in Devices : r.sessions[e] # None /\ r.sessions[e].path = x
                                /\ r.sessions[e].owned
  <2>1. CASE x = v.path
    BY <1>2, <2>1
  <2>2. CASE x # v.path
    <3>1. PICK e \in Devices : b.sessions[e] # None /\ b.sessions[e].path = x
                               /\ b.sessions[e].owned
      BY <1>3, <1>6, <2>2 DEF Kept, Own
    <3> QED BY <1>2, <3>1
  <2> QED BY <2>1, <2>2
<1> QED BY <1>4, <1>5, <1>6 DEF Kept

LEMMA UnregisteredKept ==
  ASSUME layout \in Layouts, NEW s, NEW taken, Sound(s, taken), Kept(s, taken),
         NEW p \in Players
  PROVE  Kept(Unregistered(s, p), taken)
<1> DEFINE d == DeviceOf[p]
           u == Unregistered(s, p)
           left == [s EXCEPT !.players[p] = 0]
<1>1. /\ s \in States /\ d \in Devices
      /\ left \in States /\ left.sessions = s.sessions /\ left.live = s.live
      /\ left.signals = s.signals
  BY UnregisteredIs DEF Sound
<1> HIDE DEF left
<1>2. Kept(left, taken)
  BY <1>1, SameKept DEF Alike
<1>3. CASE u = s \/ u = left
  BY <1>2, <1>3
<1>4. CASE s.sessions[d] # None /\ s.sessions[d].users > 1
           /\ u = [left EXCEPT !.sessions[d].users = @ - 1]
  <2>1. s.sessions[d] \in Session
    BY <1>1, <1>4 DEF States
  <2>2. /\ u.sessions = [s.sessions EXCEPT ![d] =
                           [s.sessions[d] EXCEPT !.users = @ - 1]]
        /\ u.live = s.live /\ u.signals = s.signals
    BY <1>1, <1>4 DEF States
  <2>3. u \in States
    BY UnregisteredSound DEF Sound
  <2> DEFINE v == [s.sessions[d] EXCEPT !.users = @ - 1]
  <2>5. /\ v.path = s.sessions[d].path /\ v.port = s.sessions[d].port
        /\ v.owned = s.sessions[d].owned /\ v \in Session
    BY <1>4, <2>1 DEF Session
  <2>6. v # None /\ u.sessions = [s.sessions EXCEPT ![d] = v]
    BY <2>2, <2>5, CoverArtAssumption
  <2> HIDE DEF v, u, d
  <2>7. \A e \in Devices : u.sessions[e] = IF e = d THEN v ELSE s.sessions[e]
    BY <1>1, <2>6 DEF States
  <2>8. \A e \in Devices : Alike(u.sessions[e], s.sessions[e])
    BY <1>4, <2>5, <2>6, <2>7 DEF Alike
  <2>9. u \in States
    BY <2>3 DEF u
  <2>10. Kept(u, taken)
    BY <1>1, <2>2, <2>8, <2>9, SameKept
  <2> QED BY <2>10 DEF u
<1>5. CASE s.sessions[d] # None /\ u = Close(left, d)
  BY <1>1, <1>2, <1>5, CloseKept
<1> QED BY <1>3, <1>4, <1>5, UnregisteredIs, <1>1 DEF left

\* The record c is b with the session that a registration in u found or made.
Opened(c, b, u, d, n, path) ==
    /\ c.sessions = b.sessions /\ c.signals = b.signals
    /\ Matching(u, d, n) # {} => c.live = b.live /\ b.live[path] = u.live[path]
    /\ Matching(u, d, n) = {} => c.live = [b.live EXCEPT ![path] = Fresh(d, n)]

LEMMA RegisteredKept ==
  ASSUME layout \in Layouts, NEW s, NEW taken, Sound(s, taken), Kept(s, taken),
         NEW p \in Players, NEW n \in ObexPorts, NEW path \in Paths,
         NEW u, u = Unregistered(s, p),
         LET found == Matching(u, DeviceOf[p], n)
         IN IF found # {} THEN path \in found ELSE path \notin taken,
         NEW then, taken \subseteq then,
         Registered(s, p, n, path).live[path] # None => path \in then,
         Registered(s, p, n, path) \in States
  PROVE  Kept(Registered(s, p, n, path), then)
<1> DEFINE d == DeviceOf[p]
           made == Made(u, d, n, path)
           new == Recorded(u, d, n, path)
           r == Registered(s, p, n, path)
           base == Base(u, d, n, path)
           value == Value(u, d, n, path)
<1>0. d \in Devices
  BY CoverArtAssumption DEF DeviceOf
<1>1. Sound(u, taken) /\ Kept(u, taken)
  BY UnregisteredSound, UnregisteredKept
<1>2. u \in States /\ Within(u, taken)
  BY <1>1 DEF Sound
<1>3. /\ made \in States /\ made.sessions = u.sessions
      /\ made.signals = u.signals
  <2>1. made \in States
    BY <1>0, <1>1, MadeIs
  <2> QED BY <1>2, <2>1 DEF Made, States
<1>4. new \in Session /\ new.path = path /\ new.port = n /\ new # None
      /\ (new.owned <=> Matching(u, d, n) = {})
  <2>1. u.sessions[d] # None => u.sessions[d].users \in Nat
    BY <1>0, <1>2 DEF States, Session
  <2>2. new \in Session
    BY <2>1 DEF Recorded, Session
  <2> QED BY <2>2, CoverArtAssumption DEF Recorded
<1>5. r = Entered(base, d, value, p, n)
  BY RegisteredIs
<1> HIDE DEF r, d
<1>6. CASE u.sessions[d] # None /\ u.sessions[d].port = n
  <2> DEFINE v == [u.sessions[d] EXCEPT !.users = @ + 1]
  <2>1. u.sessions[d] \in Session
    BY <1>0, <1>2, <1>6 DEF States
  <2>2. /\ v \in Session /\ v.path = u.sessions[d].path
        /\ v.port = u.sessions[d].port /\ v.owned = u.sessions[d].owned
    BY <2>1 DEF Session
  <2>3. v # None
    BY <2>2, CoverArtAssumption
  <2>4. r = Entered(u, d, v, p, n)
    BY <1>5, <1>6 DEF Base, Value
  <2> HIDE DEF v
  <2>5. /\ r.live = u.live /\ r.signals = u.signals
        /\ r.sessions = [u.sessions EXCEPT ![d] = v]
    BY <1>2, <2>4 DEF Entered, States
  <2>6. \A e \in Devices : r.sessions[e] = IF e = d THEN v ELSE u.sessions[e]
    BY <1>2, <2>5 DEF States
  <2>7. r \in States
    BY DEF r
  <2>8. \A e \in Devices : Alike(r.sessions[e], u.sessions[e])
    BY <1>6, <2>2, <2>3, <2>6 DEF Alike
  <2>9. Kept(r, then)
    BY <1>1, <1>2, <2>5, <2>7, <2>8, SameKept
  <2> QED BY <2>9 DEF r
<1>7. ASSUME NEW b \in States, NEW c \in States, Kept(b, taken), Within(b, taken),
             b.sessions[d] = None, Opened(c, b, u, d, n, path),
             r = Entered(c, d, new, p, n)
      PROVE  Kept(r, then)
  <2>1. /\ r.live = c.live /\ r.signals = b.signals
        /\ r.sessions = [b.sessions EXCEPT ![d] = new]
    BY <1>7 DEF Entered, States, Opened
  <2>2. r \in States
    BY DEF r
  <2>3. CASE Matching(u, d, n) # {}
    <3>1. path \in Matching(u, d, n)
      BY <2>3 DEF d
    <3>2. u.live[path] # None /\ u.live[path].device = d /\ u.live[path].port = n
      BY <3>1 DEF Matching
    <3> HIDE DEF new
    <3>3. /\ b.live[new.path] # None /\ b.live[new.path].device = d
          /\ b.live[new.path].port = new.port /\ r.live = b.live
      BY <1>4, <1>7, <2>1, <2>3, <3>2 DEF Opened
    <3> QED BY <1>0, <1>4, <1>7, <2>1, <2>2, <3>3, FoundKept
  <2>4. CASE Matching(u, d, n) = {}
    <3>1. path \notin taken
      BY <2>4 DEF d
    <3>2. r.live = [b.live EXCEPT ![path] = Fresh(d, n)]
      BY <1>7, <2>1, <2>4 DEF Opened
    <3>3. path \in then
      <4>1. Fresh(d, n) \in Live
        BY <1>0 DEF Live, Fresh
      <4>2. r.live[path] # None
        <5>1. r.live[path] = Fresh(d, n)
          BY <1>7, <3>2 DEF States
        <5> QED BY <4>1, <5>1, CoverArtAssumption
      <4> QED BY <4>2 DEF r
    <3> HIDE DEF new
    <3>4. /\ new.path \notin taken /\ new.owned /\ new.path \in then
          /\ r.live = [b.live EXCEPT ![new.path] = Fresh(d, new.port)]
      BY <1>4, <2>4, <3>1, <3>2, <3>3
    <3> QED BY <1>0, <1>4, <1>7, <2>1, <2>2, <3>4, NewKept
  <2> QED BY <2>3, <2>4
<1>8. CASE u.sessions[d] = None
  <2>1. r = Entered(made, d, new, p, n)
    BY <1>5, <1>8 DEF Base, Value
  <2>2. /\ Matching(u, d, n) # {} => made.live = u.live
        /\ Matching(u, d, n) = {} =>
             made.live = [u.live EXCEPT ![path] = Fresh(d, n)]
    BY <1>2 DEF Made, States, Fresh
  <2> HIDE DEF made, new
  <2>3. Opened(made, u, u, d, n, path)
    BY <1>3, <2>2 DEF Opened
  <2>4. Kept(r, then)
    BY <1>1, <1>2, <1>3, <1>7, <1>8, <2>1, <2>3
  <2> QED BY <2>4 DEF r
<1>9. CASE u.sessions[d] # None /\ u.sessions[d].port # n
  <2> DEFINE b == Close(u, d)
             c == Close(made, d)
             old == u.sessions[d].path
  <2>1. r = Entered(c, d, new, p, n)
    BY <1>5, <1>9 DEF Base, Value
  <2>2. /\ b \in States /\ b.sessions = [u.sessions EXCEPT ![d] = None]
        /\ Kept(b, taken)
    BY <1>0, <1>1, <1>2, <1>9, CloseSessions, CloseKept
  <2>3. Within(b, taken)
    BY <1>0, <1>2, <1>9, CloseSessions, ZenonT(60) DEF Within
  <2>4. c \in States /\ c.sessions = [made.sessions EXCEPT ![d] = None]
    BY <1>0, <1>3, <1>9, CloseSessions
  <2>5. b.sessions[d] = None /\ c.sessions = b.sessions /\ c.sessions[d] = None
    BY <1>0, <1>2, <1>3, <2>2, <2>4 DEF States
  <2>6. old \in Paths /\ old \in taken /\ (u.live[old] # None => u.live[old].port # n)
    BY <1>0, <1>1, <1>2, <1>9 DEF States, Session, Kept
  <2>7. CASE Matching(u, d, n) # {}
    <3>1. made = u
      BY <2>7 DEF Made
    <3>2. u.live[path] # None /\ u.live[path].port = n
      BY <2>7 DEF Matching, d
    <3>3. path # old
      BY <2>6, <3>2
    <3>4. b.live[path] = u.live[path]
      <4>1. CASE Removed(u, d)
        <5>1. b.live = [u.live EXCEPT ![old] = None]
          BY <1>0, <1>2, <1>9, <4>1, CloseIs
        <5> QED BY <1>2, <3>3, <5>1 DEF States
      <4>2. CASE ~Removed(u, d)
        <5>1. b.live = u.live
          BY <1>0, <1>2, <1>9, <4>2, CloseForgets
        <5> QED BY <5>1
      <4> QED BY <4>1, <4>2
    <3>5. c.live = b.live /\ c.signals = b.signals
      BY <3>1
    <3> HIDE DEF made, new, b, c
    <3>6. Opened(c, b, u, d, n, path)
      BY <2>5, <2>7, <3>4, <3>5 DEF Opened
    <3>7. Kept(r, then)
      BY <1>7, <2>1, <2>2, <2>3, <2>4, <2>5, <3>6
    <3> QED BY <3>7 DEF r
  <2>8. CASE Matching(u, d, n) = {}
    <3> DEFINE rec == Fresh(d, n)
    <3>0. made.sessions[d] # None /\ made.sessions[d].path = old
      BY <1>3, <1>9
    <3>1. made.live = [u.live EXCEPT ![path] = rec]
      BY <1>2, <2>8 DEF Made, States
    <3>2. path \notin taken /\ path # old
      BY <2>6, <2>8 DEF d
    <3>3. made.live[old] = u.live[old]
      BY <1>2, <2>6, <3>1, <3>2 DEF States
    <3>4. Removed(made, d) <=> Removed(u, d)
      BY <1>3, <3>3 DEF Removed
    <3> HIDE DEF made, old
    <3>5. c.live = [b.live EXCEPT ![path] = rec] /\ c.signals = b.signals
      <4>1. CASE Removed(u, d)
        <5>1. /\ b.live = [u.live EXCEPT ![old] = None]
              /\ b.signals = Append(u.signals, old)
          BY <1>0, <1>2, <1>9, <4>1, CloseEnds DEF old
        <5>2. /\ c.live = [made.live EXCEPT ![old] = None]
              /\ c.signals = Append(u.signals, old)
          BY <1>0, <1>3, <3>0, <3>4, <4>1, CloseEnds
        <5> HIDE DEF b, c, made, old, rec
        <5> QED BY <1>2, <3>1, <3>2, <5>1, <5>2 DEF States
      <4>2. CASE ~Removed(u, d)
        <5>1. b.live = u.live /\ b.signals = u.signals
          BY <1>0, <1>2, <1>9, <4>2, CloseForgets
        <5>2. c.live = made.live /\ c.signals = u.signals
          BY <1>0, <1>3, <3>0, <3>4, <4>2, CloseForgets
        <5> QED BY <3>1, <5>1, <5>2
      <4> QED BY <4>1, <4>2
    <3> HIDE DEF new, b, c
    <3>6. Opened(c, b, u, d, n, path)
      BY <2>5, <2>8, <3>5 DEF Opened, rec
    <3>7. Kept(r, then)
      BY <1>7, <2>1, <2>2, <2>3, <2>4, <2>5, <3>6
    <3> QED BY <3>7 DEF r
  <2> QED BY <2>7, <2>8
<1> QED BY <1>6, <1>8, <1>9 DEF r

----------------------------------------------------------------------------
(* The invariant                                                           *)

Core == layout \in Layouts /\ Sound(State, used)

Others ==
    /\ obexd \in BOOLEAN /\ failed \in BOOLEAN
    /\ port \in [Players -> ObexPorts \cup {0, None}]
    /\ operations \in Seq(Players \cup {"reset"})
    /\ tasks \in Seq(Task)
    /\ todo \subseteq Registration
    /\ get \in Get \cup {None}
    /\ spent \in Spent
    /\ deaf \subseteq Paths /\ pending \subseteq Request

IInv == Core /\ Others

LEMMA Parts ==
  /\ IInv <=> TypeOK /\ UsersBounded /\ NoSecondSession
  /\ IInv' <=> (TypeOK /\ UsersBounded /\ NoSecondSession)'
<1>1. /\ State.players = players /\ State.sessions = sessions
      /\ State.live = live /\ State.signals = signals
      /\ State'.players = players' /\ State'.sessions = sessions'
      /\ State'.live = live' /\ State'.signals = signals'
  BY DEF State
<1>2. /\ State \in States <=> /\ players \in [Players -> ObexPorts \cup {0}]
                              /\ sessions \in [Devices -> Session \cup {None}]
                              /\ live \in [Paths -> Live \cup {None}]
                              /\ signals \in Seq(Signal)
      /\ State' \in States <=> /\ players' \in [Players -> ObexPorts \cup {0}]
                               /\ sessions' \in [Devices -> Session \cup {None}]
                               /\ live' \in [Paths -> Live \cup {None}]
                               /\ signals' \in Seq(Signal)
  BY DEF State, States
<1>3. /\ \A d \in Devices : UsersOf(State, d) = Of(d)
      /\ \A d \in Devices : UsersOf(State, d)' = Of(d)'
  BY <1>1 DEF UsersOf, Of, DeviceOf
<1>4. /\ Counted(State) <=> UsersBounded
      /\ Counted(State)' <=> UsersBounded'
  BY <1>1, <1>3 DEF Counted, UsersBounded
<1>5. /\ Separate(State) <=> NoSecondSession
      /\ Separate(State)' <=> NoSecondSession'
  BY <1>1 DEF Separate, NoSecondSession
<1>6. /\ Within(State, used) <=> {x \in Paths : live[x] # None} \subseteq used
      /\ Within(State, used)' <=> {x \in Paths : live'[x] # None} \subseteq used'
  BY <1>1 DEF Within
<1> HIDE DEF State
<1>7. /\ IInv <=> TypeOK /\ UsersBounded /\ NoSecondSession
  BY <1>2, <1>4, <1>5, <1>6 DEF IInv, Core, Others, Sound, TypeOK
<1>8. /\ IInv' <=> (TypeOK /\ UsersBounded /\ NoSecondSession)'
  BY <1>2, <1>4, <1>5, <1>6 DEF IInv, Core, Others, Sound, TypeOK
<1> QED BY <1>7, <1>8

\* A critical section that leaves a sound record keeps the invariant's core.
LEMMA BecomeCore ==
  ASSUME layout \in Layouts, layout' = layout, NEW r, Become(r), Sound(r, used')
  PROVE  Core'
<1>1. r \in States
  BY DEF Sound
<1>2. State' = r
  BY <1>1 DEF State, States, Become
<1>3. Counted(State)' <=> Counted(r)
  BY <1>2 DEF Counted, UsersOf, DeviceOf
<1>4. (Separate(State)' <=> Separate(r)) /\ (Within(State, used)' <=> Within(r, used'))
  BY <1>2 DEF Separate, Within
<1> QED BY <1>1, <1>2, <1>3, <1>4 DEF Core, Sound

\* A step that touches none of it does too.
LEMMA CoreUnchanged ==
  ASSUME Core, UNCHANGED <<layout, service, live, signals, used>>
  PROVE  Core'
BY BecomeCore DEF Core, Become, State, service

----------------------------------------------------------------------------
(* Registrations                                                           *)

LEMMA RegisterReturnsCore ==
  ASSUME Core, layout' = layout, NEW p \in Players,
         NEW n \in ObexPorts \cup {0}, RegisterReturns(p, n)
  PROVE  Core'
<1>0. layout \in Layouts /\ Sound(State, used)
  BY DEF Core
<1>1. CASE Become(Unregistered(State, p)) /\ UNCHANGED used
  <2>1. Sound(Unregistered(State, p), used)
    BY <1>0, UnregisteredSound
  <2>2. Sound(Unregistered(State, p), used')
    BY <1>1, <2>1
  <2> QED BY <1>0, <1>1, <2>2, BecomeCore
<1>2. CASE UNCHANGED <<service, live, signals, used>>
  BY <1>2, CoreUnchanged
<1>3. ASSUME n # 0, NEW path \in Candidates(p, n),
             Become(Registered(State, p, n, path)),
             used' = used \cup {x \in {path} : live'[x] # None}
      PROVE  Core'
  <2>1. path \in Paths
    BY DEF Candidates, Matching
  <2>2. n \in ObexPorts
    BY <1>3
  <2>3. Sound(Registered(State, p, n, path),
              used \cup {x \in {path} : Registered(State, p, n, path).live[x] # None})
    BY <1>0, <2>1, <2>2, RegisteredSound
  <2>4. live' = Registered(State, p, n, path).live
    BY <1>3 DEF Become
  <2>5. used' = used \cup {x \in {path} : Registered(State, p, n, path).live[x] # None}
    BY <1>3, <2>4
  <2>6. Sound(Registered(State, p, n, path), used')
    BY <2>3, <2>5
  <2> QED BY <1>0, <1>3, <2>6, BecomeCore
<1> QED BY <1>1, <1>2, <1>3 DEF RegisterReturns

LEMMA RegisterThrowsCore ==
  ASSUME Core, layout' = layout, NEW p \in Players, NEW n, RegisterThrows(p, n)
  PROVE  Core'
<1>0. layout \in Layouts /\ Sound(State, used) /\ used' = used
  BY DEF Core, RegisterThrows
<1>1. Sound(Unregistered(State, p), used)
  BY <1>0, UnregisteredSound
<1>2. Sound(Unregistered(State, p), used') /\ Sound(State, used')
  BY <1>0, <1>1
<1>3. Become(State) \/ Become(Unregistered(State, p))
  BY DEF RegisterThrows
<1> QED BY <1>0, <1>2, <1>3, BecomeCore

LEMMA RegisterThrowsOthers ==
  ASSUME Others, layout \in Layouts, NEW p \in Players,
         NEW n \in ObexPorts \cup {0}, RegisterThrows(p, n)
  PROVE  failed' \in BOOLEAN /\ spent' \in Spent /\ pending' \subseteq Request
<1>0. pending' \subseteq Request
  <2>1. n # 0 /\ DeviceOf[p] \in Devices
    BY CoverArtAssumption DEF RegisterThrows, DeviceOf
  <2>2. [device |-> DeviceOf[p], port |-> n] \in Request
    BY <2>1 DEF Request
  <2> QED BY <2>2 DEF RegisterThrows, Others
<1>1. CASE UNCHANGED <<spent, failed>>
  BY <1>0, <1>1 DEF Others
<1>2. CASE failed' = TRUE /\ spent' = [spent EXCEPT !.errors = @ + 1]
  <2>1. spent \in Spent
    BY DEF Others
  <2>2. spent' \in Spent
    BY <1>2, <2>1 DEF Spent
  <2> QED BY <1>0, <1>2, <2>2
<1> QED BY <1>1, <1>2 DEF RegisterThrows

----------------------------------------------------------------------------
(* The steps that change the sessions in other ways                        *)

LEMMA TaskTaken ==
  ASSUME Others, NEW type, TakeTask(type)
  PROVE  /\ tasks' \in Seq(Task) /\ Head(tasks) \in Task
         /\ Head(tasks).type = type /\ tasks # <<>>
BY DEF Others, TakeTask

LEMMA SignalTaken ==
  ASSUME Core, NEW S, NextSignal(S)
  PROVE  signals' \in Seq(Signal) /\ Head(signals) \in S
<1>1. signals \in Seq(Signal)
  BY DEF Core, Sound, States, State
<1> QED BY <1>1 DEF NextSignal

LEMMA TakeUnregisterCore == ASSUME IInv, TakeUnregister PROVE Core'
<1>1. layout \in Layouts /\ Sound(State, used) /\ layout' = layout /\ used' = used
  BY DEF IInv, Core, TakeUnregister, bluez
<1>2. Head(tasks).player \in Players
  BY TaskTaken DEF IInv, TakeUnregister, Task
<1>3. Sound(Unregistered(State, Head(tasks).player), used)
  BY <1>1, <1>2, UnregisteredSound
<1>4. Sound(Unregistered(State, Head(tasks).player), used')
  BY <1>1, <1>3
<1> QED BY <1>1, <1>4, BecomeCore DEF TakeUnregister

\* What invalidate_player_session leaves of a sound record.
Forgot(d) ==
    [State EXCEPT !.players = [q \in Players |->
                                 IF DeviceOf[q] = d THEN 0 ELSE players[q]]]

LEMMA ForgotIs ==
  ASSUME IInv, NEW d \in Devices
  PROVE  /\ Forgot(d) \in States
         /\ Forgot(d).players = [q \in Players |->
                                   IF DeviceOf[q] = d THEN 0 ELSE players[q]]
         /\ Forgot(d).sessions = sessions /\ Forgot(d).live = live
         /\ Forgot(d).signals = signals
<1>1. State \in States
  BY DEF IInv, Core, Sound
<1> QED BY <1>1 DEF Forgot, State, States

LEMMA GetFailsIs ==
  ASSUME IInv, GetFails
  PROVE  LET d == DeviceOf[get.player] IN
         /\ get.player \in Players /\ d \in Devices
         /\ UNCHANGED <<layout, obexd, used, deaf, pending, failed, tasks, todo>>
         /\ \/ Become(State)
            \/ sessions[d] = None /\ Become(Forgot(d))
            \/ sessions[d] # None /\ Become(Close(Forgot(d), d))
<1>1. get.player \in Players
  BY DEF IInv, Others, GetFails, Get
<1>2. DeviceOf[get.player] \in Devices
  BY <1>1, CoverArtAssumption DEF IInv, Core, DeviceOf
<1> QED BY <1>1, <1>2 DEF GetFails, Forgot, bluez, strays

LEMMA GetFailsCore == ASSUME IInv, GetFails PROVE Core'
<1> DEFINE d == DeviceOf[get.player]
           none == Forgot(d)
           c == Close(none, d)
<1>1. layout \in Layouts /\ Sound(State, used) /\ layout' = layout /\ used' = used
      /\ d \in Devices
  BY GetFailsIs DEF IInv, Core
<1>2. /\ State \in States /\ State.sessions = sessions /\ State.live = live
      /\ State.players = players
  BY <1>1 DEF Sound, State
<1>3. /\ none.players = [q \in Players |-> IF DeviceOf[q] = d THEN 0 ELSE players[q]]
      /\ none.sessions = sessions /\ none.live = live /\ none \in States
  BY <1>1, ForgotIs
<1> HIDE DEF none
\* A record of which no session of d is left.
<1>4. ASSUME NEW r \in States, Become(r), r.players = none.players,
             \A e \in Devices : r.sessions[e] # None =>
               e # d /\ r.sessions[e] = sessions[e],
             \A x \in Paths : r.live[x] # None => r.live[x] = live[x]
      PROVE  Core'
  <2>1. Counted(r)
    <3> SUFFICES ASSUME NEW e \in Devices, r.sessions[e] # None
                 PROVE  /\ r.sessions[e].users >= 1
                        /\ r.sessions[e].users <= Cardinality(UsersOf(r, e))
      BY DEF Counted
    <3>1. e # d /\ r.sessions[e] = State.sessions[e]
      BY <1>2, <1>4
    <3>2. UsersOf(r, e) = UsersOf(State, e)
      BY <1>2, <1>3, <1>4, <3>1 DEF UsersOf
    <3> QED BY <1>1, <3>1, <3>2 DEF Sound, Counted
  <2>2. Within(r, used) /\ Separate(r)
    BY <1>1, <1>2, <1>4, FewerLive DEF Sound
  <2>3. Sound(r, used')
    BY <1>1, <1>4, <2>1, <2>2 DEF Sound
  <2> QED BY <1>1, <1>4, <2>3, BecomeCore
<1>5. CASE Become(State)
  <2>1. Sound(State, used')
    BY <1>1
  <2> QED BY <1>1, <1>5, <2>1, BecomeCore
<1>6. CASE sessions[d] = None /\ Become(none)
  BY <1>3, <1>4, <1>6
<1>7. CASE sessions[d] # None /\ Become(c)
  <2>1. /\ c \in States /\ c.players = none.players
        /\ c.sessions = [none.sessions EXCEPT ![d] = None]
        /\ \A x \in Paths : c.live[x] # None => c.live[x] = none.live[x]
    BY <1>1, <1>3, <1>7, CloseSessions
  <2> HIDE DEF c
  <2>2. \A e \in Devices : c.sessions[e] # None =>
          e # d /\ c.sessions[e] = sessions[e]
    BY <1>1, <1>2, <1>3, <2>1 DEF States
  <2> QED BY <1>3, <1>4, <1>7, <2>1, <2>2
<1> QED BY <1>5, <1>6, <1>7, GetFailsIs DEF none

\* A finite set in any order is a sequence of its elements.
LEMMA OrderIsSeq ==
  ASSUME NEW S, IsFiniteSet(S), NEW order \in SetToSeqs(S)
  PROVE  order \in Seq(S)
<1>1. Cardinality(S) \in Nat
  BY FS_CardinalityType
<1>2. order \in [1..Cardinality(S) -> S]
  BY DEF SetToSeqs
<1> QED BY <1>1, <1>2

LEMMA ClosedIsFinite ==
  ASSUME NEW f, NEW S \in SUBSET {f[d] : d \in Devices}
  PROVE  IsFiniteSet(S)
<1> DEFINE T == {d \in Devices : f[d] \in S}
           g == [d \in T |-> f[d]]
<1>1. IsFiniteSet(T)
  BY CoverArtAssumption, FS_Subset
<1>2. g \in Surjection(T, S)
  BY DEF Surjection
<1> QED BY <1>1, <1>2, FS_Surjection

LEMMA TakeResetCore == ASSUME IInv, TakeReset PROVE Core'
<1> DEFINE recorded == {sessions[d] : d \in {e \in Devices : sessions[e] # None}}
           closed == {s \in Paths : /\ live[s] # None /\ live[s].ours /\ s \notin deaf
                                    /\ \E r \in recorded : r.owned /\ r.path = s}
           r == [players |-> players', sessions |-> sessions',
                 live |-> live', signals |-> signals']
<1>1. layout \in Layouts /\ Sound(State, used) /\ layout' = layout /\ used' = used
  BY DEF IInv, Core, TakeReset, bluez
<1>2. /\ players' = [p \in Players |-> 0]
      /\ sessions' = [d \in Devices |-> None]
      /\ live' = [s \in Paths |-> IF s \in closed THEN None ELSE live[s]]
      /\ \E order \in SetToSeqs(closed) : signals' = signals \o order
  BY DEF TakeReset
<1>3. /\ State \in States /\ State.live = live /\ signals \in Seq(Signal)
      /\ live \in [Paths -> Live \cup {None}]
  BY <1>1 DEF Sound, State, States
<1>4. signals' \in Seq(Signal)
  <2> DEFINE path == [d \in Devices |-> sessions[d].path]
  <2>1. closed \in SUBSET {path[d] : d \in Devices}
    <3> SUFFICES ASSUME NEW s \in closed PROVE s \in {path[d] : d \in Devices}
      OBVIOUS
    <3>1. PICK d \in Devices : sessions[d].path = s
      OBVIOUS
    <3> QED BY <3>1
  <2>2. closed \subseteq Signal
    BY DEF Signal
  <2> HIDE DEF closed, path
  <2>3. IsFiniteSet(closed)
    BY <2>1, ClosedIsFinite
  <2>4. PICK order \in SetToSeqs(closed) : signals' = signals \o order
    BY <1>2
  <2>5. order \in Seq(Signal)
    BY <2>2, <2>3, OrderIsSeq
  <2> QED BY <1>3, <2>4, <2>5
<1> HIDE DEF closed
<1>5. live' \in [Paths -> Live \cup {None}]
  BY <1>2, <1>3
<1>6. r \in States
  BY <1>2, <1>4, <1>5 DEF States
<1>7. Counted(r)
  BY <1>2 DEF Counted
<1>8. \A x \in Paths : r.live[x] # None => r.live[x] = State.live[x]
  BY <1>2, <1>3
<1>9. Become(r)
  BY DEF Become
<1> HIDE DEF r
<1>10. Sound(r, used')
  <2>1. Within(r, used) /\ Separate(r)
    BY <1>1, <1>3, <1>6, <1>8, FewerLive DEF Sound
  <2> QED BY <1>1, <1>6, <1>7, <2>1 DEF Sound
<1> QED BY <1>1, <1>9, <1>10, BecomeCore

\* A step that leaves the players alone, ends records and sessions, and makes
\* none.
LEMMA EndsCore ==
  ASSUME Core, UNCHANGED <<layout, players>>,
         sessions' \in [Devices -> Session \cup {None}],
         \A d \in Devices : sessions'[d] # None => sessions'[d] = sessions[d],
         live' \in [Paths -> Live \cup {None}],
         \A s \in Paths : live'[s] # None => live'[s] = live[s],
         signals' \in Seq(Signal), used' \subseteq Paths,
         {s \in Paths : live'[s] # None} \subseteq used'
  PROVE  Core'
<1> DEFINE r == [players |-> players', sessions |-> sessions',
                 live |-> live', signals |-> signals']
<1>1. layout \in Layouts /\ Sound(State, used)
  BY DEF Core
<1>2. /\ State \in States /\ State.live = live /\ State.sessions = sessions
      /\ State.players = players
  BY <1>1 DEF Sound, State
<1>3. r \in States /\ Become(r)
  BY <1>2 DEF States, Become
<1>4. Counted(r)
  <2>1. \A d \in Devices : UsersOf(r, d) = UsersOf(State, d)
    BY <1>2 DEF UsersOf
  <2> QED BY <1>1, <1>2, <2>1 DEF Sound, Counted
<1>5. Separate(r)
  BY <1>1, <1>2 DEF Sound, Separate
<1>6. Within(r, used')
  BY DEF Within
<1> HIDE DEF r
<1> QED BY <1>1, <1>3, <1>4, <1>5, <1>6, BecomeCore DEF Sound

\* A session that comes late is at a new path.
LEMMA LateIs ==
  ASSUME IInv, NEW s \in Paths, LateSession(s)
  PROVE  /\ s \notin used /\ live[s] = None /\ used' = used \cup {s}
         /\ UNCHANGED <<layout, obexd, deaf, signals, players, sessions, spent,
                       tasks, todo, failed>>
         /\ live' \in [Paths -> Live \cup {None}]
         /\ \A x \in Paths : x # s => live'[x] = live[x]
         /\ live'[s] # None /\ live'[s].late
         /\ pending' \subseteq pending
<1>1. /\ live \in [Paths -> Live \cup {None}] /\ pending \subseteq Request
      /\ {x \in Paths : live[x] # None} \subseteq used
  BY Parts DEF TypeOK
<1>2. PICK r \in pending :
         /\ pending' = pending \ {r}
         /\ live' = [live EXCEPT ![s] = [device |-> r.device, port |-> r.port,
                                        ours |-> TRUE, late |-> TRUE]]
  BY DEF LateSession
<1> DEFINE new == [device |-> r.device, port |-> r.port, ours |-> TRUE,
                   late |-> TRUE]
<1>3. new \in Live /\ new.late
  BY <1>1 DEF Live, Request
<1>4. new # None
  BY <1>3, CoverArtAssumption
<1> HIDE DEF new
<1>5. live' = [live EXCEPT ![s] = new]
  BY <1>2 DEF new
<1> QED BY <1>1, <1>2, <1>3, <1>4, <1>5 DEF LateSession, bluez, service

LEMMA LateCore ==
  ASSUME IInv, NEW s \in Paths, LateSession(s)
  PROVE  Core'
<1> DEFINE r == [players |-> players', sessions |-> sessions',
                 live |-> live', signals |-> signals']
<1>1. layout \in Layouts /\ Sound(State, used) /\ layout' = layout
  BY LateIs DEF IInv, Core
<1>2. /\ State \in States /\ State.live = live /\ State.sessions = sessions
      /\ State.players = players /\ State.signals = signals
  BY <1>1 DEF Sound, State
<1>3. r \in States /\ Become(r) /\ r.live = live' /\ r.players = players
      /\ r.sessions = sessions
  BY <1>2, LateIs DEF States, Become
<1> HIDE DEF r
<1>4. Counted(r)
  <2>1. \A d \in Devices : UsersOf(r, d) = UsersOf(State, d)
    BY <1>2, <1>3 DEF UsersOf
  <2> QED BY <1>1, <1>2, <1>3, <2>1 DEF Sound, Counted
<1>5. Separate(r)
  BY <1>1, <1>2, <1>3, LateIs DEF Sound, Separate
<1>6. Within(r, used') /\ used' \subseteq Paths
  BY <1>1, <1>2, <1>3, LateIs DEF Sound, Within
<1>7. Sound(r, used')
  BY <1>3, <1>4, <1>5, <1>6 DEF Sound
<1> QED BY <1>1, <1>3, <1>7, BecomeCore

----------------------------------------------------------------------------
(* The induction                                                           *)

LEMMA InitIInv == Init => IInv
<1> SUFFICES ASSUME Init PROVE IInv
  OBVIOUS
<1>0. layout \in Layouts /\ layout.device \in [Players -> Devices]
      /\ layout.obexPorts \subseteq ObexPorts
      /\ {layout.adds, layout.ports, layout.starts, layout.drops,
          layout.errors, layout.gets} \subseteq Nat
  BY CoverArtAssumption DEF Init
<1>1. PICK s \in Paths,
           theirs \in [device : {DeviceOf[p] : p \in Players},
                       port : layout.obexPorts, ours : {FALSE}, late : {FALSE}] \cup {None} :
         /\ live = [x \in Paths |-> IF x = s THEN theirs ELSE None]
         /\ used = {x \in Paths : live[x] # None}
  BY DEF Init
<1>2. theirs \in Live \cup {None}
  BY <1>0 DEF Live, DeviceOf
<1>3. NoSecondSession /\ live \in [Paths -> Live \cup {None}]
      /\ {x \in Paths : live[x] # None} \subseteq used /\ used \subseteq Paths
  BY <1>1, <1>2 DEF NoSecondSession
<1>4. spent \in Spent
  <2>1. Budget \in Spent
    BY <1>0 DEF Budget, Spent, MaxAdds, MaxPorts, MaxStarts, MaxDrops,
                MaxErrors, MaxGets
  <2>2. spent = [Budget EXCEPT !.starts = 1, !.drops = 0, !.errors = 0,
                               !.gets = 0, !.ports = 0,
                               !.adds = [p \in Players |-> 0]]
    BY DEF Init
  <2> QED BY <2>1, <2>2 DEF Spent
<1>5. UsersBounded
  BY DEF Init, UsersBounded
<1>6. TypeOK
  <2>1. signals \in Seq(Signal) /\ operations \in Seq(Players \cup {"reset"})
        /\ tasks \in Seq(Task)
    BY DEF Init
  <2>2. /\ port \in [Players -> ObexPorts \cup {0, None}]
        /\ players \in [Players -> ObexPorts \cup {0}]
        /\ sessions \in [Devices -> Session \cup {None}]
        /\ todo \subseteq Registration
    BY DEF Init
  <2>3. obexd \in BOOLEAN /\ failed \in BOOLEAN /\ get \in Get \cup {None}
        /\ deaf \subseteq Paths /\ pending \subseteq Request
    BY DEF Init
  <2> QED BY <1>0, <1>3, <1>4, <2>1, <2>2, <2>3 DEF TypeOK
<1> QED BY <1>3, <1>5, <1>6, Parts

LEMMA StepCore ==
  ASSUME IInv, Next
  PROVE  Core'
<1>1. Core /\ Others /\ TypeOK
  BY Parts DEF IInv
<1>2. CASE TakeRegister \/ TakeReconnect
  BY <1>1, <1>2, CoreUnchanged DEF TakeRegister, TakeReconnect, obex, strays, bluez
<1>3. CASE TakeUnregister
  BY <1>3, TakeUnregisterCore
<1>4. CASE TakeReset
  BY <1>4, TakeResetCore
<1>5. ASSUME NEW r \in todo, Register(r[1], r[2]) PROVE Core'
  <2>1. r[1] \in Players /\ r[2] \in ObexPorts \cup {0}
    BY <1>1 DEF Others, Registration
  <2>2. layout' = layout
    BY <1>5 DEF Register, bluez
  <2> QED BY <1>1, <1>5, <2>1, <2>2, RegisterReturnsCore, RegisterThrowsCore
             DEF Register
<1>6. CASE Forward
  BY <1>1, <1>6, CoreUnchanged DEF Forward, obex, strays
<1>7. CASE HandleObexOwner
  <2>1. signals' \in Seq(Signal)
    BY <1>1, <1>7, SignalTaken DEF HandleObexOwner
  <2> QED BY <1>1, <1>7, <2>1, EndsCore DEF HandleObexOwner, bluez, TypeOK
<1>8. CASE HandleSessionRemoved
  <2>1. signals' \in Seq(Signal)
    BY <1>1, <1>8, SignalTaken DEF HandleSessionRemoved
  <2>2. /\ sessions' \in [Devices -> Session \cup {None}]
        /\ \A d \in Devices : sessions'[d] # None => sessions'[d] = sessions[d]
    BY <1>1, <1>8 DEF HandleSessionRemoved, TypeOK
  <2> QED BY <1>1, <1>8, <2>1, <2>2, EndsCore
             DEF HandleSessionRemoved, bluez, TypeOK
<1>9. CASE GetRegister
  <2>1. get.player \in Players /\ get.port \in ObexPorts \cup {0}
    BY <1>1, <1>9 DEF Others, Get, GetRegister
  <2>2. layout' = layout
    BY <1>9 DEF GetRegister, bluez
  <2> QED BY <1>1, <1>9, <2>1, <2>2, RegisterReturnsCore, RegisterThrowsCore
             DEF GetRegister
<1>10. CASE GetLooks \/ GetEnds
  BY <1>1, <1>10, CoreUnchanged DEF GetLooks, GetEnds, obex, strays, bluez
<1>11. CASE GetFails
  BY <1>11, GetFailsCore
<1>12. CASE StartObexd
  <2>1. signals' \in Seq(Signal)
    BY <1>1, <1>12 DEF StartObexd, TypeOK, Signal
  <2> QED BY <1>1, <1>12, <2>1, EndsCore DEF StartObexd, bluez, service, TypeOK
<1>13. CASE StopObexd
  <2>1. signals' \in Seq(Signal)
    BY <1>1, <1>13 DEF StopObexd, TypeOK, Signal
  <2> QED BY <1>1, <1>13, <2>1, EndsCore DEF StopObexd, bluez, service, TypeOK
<1>14. ASSUME NEW s \in Paths, DropSession(s) PROVE Core'
  <2>1. signals' \in Seq(Signal)
    BY <1>1, <1>14 DEF DropSession, TypeOK, Signal
  <2> QED BY <1>1, <1>14, <2>1, EndsCore DEF DropSession, bluez, service, TypeOK
<1>14a. ASSUME NEW s \in Paths, Refuse(s) PROVE Core'
  BY <1>1, <1>14a, CoreUnchanged DEF Refuse, bluez
<1>14b. ASSUME NEW s \in Paths, LateSession(s) PROVE Core'
  BY <1>14b, LateCore
<1>15. ASSUME NEW p \in Players, StartGet(p) \/ RemovePlayer(p) PROVE Core'
  BY <1>1, <1>15, CoreUnchanged DEF StartGet, RemovePlayer, obex, strays, bluez
<1>16. ASSUME NEW p \in Players, NEW n \in layout.obexPorts \cup {0},
              AddPlayer(p, n) \/ ChangePlayer(p, n)
       PROVE  Core'
  BY <1>1, <1>16, CoreUnchanged DEF AddPlayer, ChangePlayer, obex, strays, bluez
<1>17. ASSUME NEW a \in Adapters, RemoveAdapter(a) PROVE Core'
  BY <1>1, <1>17, CoreUnchanged DEF RemoveAdapter, obex, strays, bluez
<1> QED BY <1>2, <1>3, <1>4, <1>5, <1>6, <1>7, <1>8, <1>9, <1>10, <1>11, <1>12,
           <1>13, <1>14, <1>14a, <1>14b, <1>15, <1>16, <1>17 DEF Next

\* What the queue of tasks holds after another is put on it.
LEMMA TaskPut ==
  ASSUME Others, NEW e \in Task
  PROVE  Append(tasks, e) \in Seq(Task)
BY DEF Others

LEMMA BoundsAreNumbers ==
  ASSUME layout \in Layouts
  PROVE  MaxAdds \in Nat /\ layout.obexPorts \subseteq ObexPorts
BY CoverArtAssumption DEF MaxAdds

LEMMA SpentMore ==
  ASSUME spent \in Spent
  PROVE  /\ [spent EXCEPT !.ports = @ + 1] \in Spent
         /\ [spent EXCEPT !.starts = @ + 1] \in Spent
         /\ [spent EXCEPT !.drops = @ + 1] \in Spent
         /\ [spent EXCEPT !.errors = @ + 1] \in Spent
         /\ [spent EXCEPT !.gets = @ + 1] \in Spent
         /\ \A p \in Players : [spent EXCEPT !.adds[p] = @ + 1] \in Spent
BY DEF Spent

LEMMA StepOthers ==
  ASSUME IInv, Next
  PROVE  Others'
<1>1. Core /\ Others /\ TypeOK /\ layout \in Layouts
  BY Parts DEF IInv, Core
<1>2. CASE TakeRegister
  <2>1. tasks' \in Seq(Task) /\ Head(tasks) \in Task
        /\ Head(tasks).type = "register"
    BY <1>1, <1>2, TaskTaken DEF TakeRegister
  <2>2. todo' \subseteq Registration
    BY <1>2, <2>1 DEF TakeRegister, Task, Registration
  <2> QED BY <1>1, <1>2, <2>1, <2>2 DEF TakeRegister, Others, obex, strays, bluez
<1>3. CASE TakeReconnect
  <2>1. tasks' \in Seq(Task)
    BY <1>1, <1>3, TaskTaken DEF TakeReconnect
  <2>2. todo' \subseteq Registration
    BY <1>1, <1>3 DEF TakeReconnect, TypeOK, Registration
  <2> QED BY <1>1, <1>3, <2>1, <2>2 DEF TakeReconnect, Others, obex, strays, bluez
<1>4. CASE TakeUnregister
  <2>1. tasks' \in Seq(Task)
    BY <1>1, <1>4, TaskTaken DEF TakeUnregister
  <2> QED BY <1>1, <1>4, <2>1 DEF TakeUnregister, Others, bluez, strays
<1>5. CASE TakeReset
  <2>1. tasks' \in Seq(Task)
    BY <1>1, <1>5, TaskTaken DEF TakeReset
  <2> QED BY <1>1, <1>5, <2>1 DEF TakeReset, Others, bluez, strays
<1>6. ASSUME NEW r \in todo, Register(r[1], r[2]) PROVE Others'
  <2>0. r[1] \in Players /\ r[2] \in ObexPorts \cup {0}
    BY <1>1 DEF Others, Registration
  <2>1. failed' \in BOOLEAN /\ spent' \in Spent /\ pending' \subseteq Request
    BY <1>1, <1>6, <2>0, RegisterThrowsOthers DEF Register, Others
  <2>2. todo' \subseteq Registration
    BY <1>1, <1>6 DEF Register, Others
  <2> QED BY <1>1, <1>6, <2>1, <2>2 DEF Register, Others, bluez
<1>7. CASE Forward
  <2>1. Head(operations) \in Players \cup {"reset"}
        /\ operations' \in Seq(Players \cup {"reset"})
    BY <1>1, <1>7 DEF Forward, Others
  <2>2. tasks' \in Seq(Task)
    <3>1. CASE Head(operations) = "reset"
      <4>1. [type |-> "reset"] \in Task
        BY DEF Task
      <4> QED BY <1>1, <1>7, <3>1, <4>1, TaskPut DEF Forward
    <3>2. CASE Head(operations) # "reset"
      <4>1. [type |-> "unregister", player |-> Head(operations)] \in Task
        BY <2>1, <3>2 DEF Task
      <4> QED BY <1>1, <1>7, <3>2, <4>1, TaskPut DEF Forward
    <3> QED BY <3>1, <3>2
  <2> QED BY <1>1, <1>7, <2>1, <2>2 DEF Forward, Others, obex, strays
<1>8. CASE HandleObexOwner \/ HandleSessionRemoved
  <2>1. [type |-> "reconnect"] \in Task
    BY DEF Task
  <2>2. tasks' \in Seq(Task)
    BY <1>1, <1>8, <2>1, TaskPut
       DEF HandleObexOwner, HandleSessionRemoved, Others
  <2> QED BY <1>1, <1>8, <2>2
             DEF HandleObexOwner, HandleSessionRemoved, Others, bluez, strays
<1>9. CASE GetRegister
  <2>0. get.player \in Players /\ get.port \in ObexPorts \cup {0}
    BY <1>1, <1>9 DEF Others, Get, GetRegister
  <2>1. failed' \in BOOLEAN /\ spent' \in Spent /\ pending' \subseteq Request
    BY <1>1, <1>9, <2>0, RegisterThrowsOthers DEF GetRegister, Others
  <2>2. get' \in Get \cup {None}
    BY <1>1, <1>9 DEF GetRegister, Others, Get
  <2> QED BY <1>1, <1>9, <2>1, <2>2 DEF GetRegister, Others, bluez
<1>10. CASE GetEnds
  BY <1>1, <1>10 DEF GetEnds, Others, obex, strays, bluez
<1>10a. CASE GetLooks
  <2>1. get' \in Get \cup {None}
    <3>1. get \in Get /\ DeviceOf[get.player] \in Devices
      <4>1. get \in Get
        BY <1>1, <1>10a DEF GetLooks, Others
      <4> QED BY <1>1, <4>1, CoverArtAssumption DEF Get, DeviceOf
    <3>2. CASE get' = None
      BY <3>2
    <3>3. CASE sessions[DeviceOf[get.player]] # None
               /\ get' = [get EXCEPT !.at = "transfer",
                                     !.path = sessions[DeviceOf[get.player]].path]
      <4>1. sessions[DeviceOf[get.player]].path \in Paths
        BY <1>1, <3>1, <3>3 DEF TypeOK, Session
      <4> QED BY <3>1, <3>3, <4>1 DEF Get
    <3> QED BY <1>10a, <3>2, <3>3 DEF GetLooks
  <2> QED BY <1>1, <1>10a, <2>1 DEF GetLooks, Others, obex, strays, bluez
<1>11. CASE GetFails
  <2>1. spent' \in Spent
    BY <1>1, <1>11, SpentMore DEF GetFails, Others
  <2>2. get \in Get /\ get # None
    BY <1>1, <1>11 DEF GetFails, Others
  <2>3. [get EXCEPT !.attempt = 2, !.at = "register"] \in Get
    <3>1. [get EXCEPT !.attempt = 2] \in Get
      BY <2>2 DEF Get
    <3>2. [[get EXCEPT !.attempt = 2] EXCEPT !.at = "register"] \in Get
      BY <3>1 DEF Get
    <3>3. [get EXCEPT !.attempt = 2, !.at = "register"]
            = [[get EXCEPT !.attempt = 2] EXCEPT !.at = "register"]
      BY <2>2 DEF Get
    <3> QED BY <3>2, <3>3
  <2>4. get' \in Get \cup {None}
    BY <1>11, <2>3 DEF GetFails
  <2> QED BY <1>1, <1>11, <2>1, <2>4 DEF GetFails, Others, bluez, strays
<1>12. CASE StartObexd
  <2>1. spent' \in Spent
    BY <1>1, <1>12, SpentMore DEF StartObexd, Others
  <2> QED BY <1>1, <1>12, <2>1 DEF StartObexd, Others, bluez, strays
<1>13. CASE StopObexd
  BY <1>1, <1>13 DEF StopObexd, Others, bluez
<1>14. ASSUME NEW s \in Paths, DropSession(s) PROVE Others'
  <2>1. spent' \in Spent
    BY <1>1, <1>14, SpentMore DEF DropSession, Others
  <2> QED BY <1>1, <1>14, <2>1 DEF DropSession, Others, bluez, strays
<1>14a. ASSUME NEW s \in Paths, Refuse(s) PROVE Others'
  <2>1. spent' \in Spent
    BY <1>1, <1>14a, SpentMore DEF Refuse, Others
  <2> QED BY <1>1, <1>14a, <2>1 DEF Refuse, Others, bluez
<1>14b. ASSUME NEW s \in Paths, LateSession(s) PROVE Others'
  BY <1>1, <1>14b, LateIs DEF LateSession, Others, bluez
<1>15. ASSUME NEW p \in Players, StartGet(p) PROVE Others'
  <2>1. spent' \in Spent
    BY <1>1, <1>15, SpentMore DEF StartGet, Others
  <2>2. get' \in Get
    BY <1>1, <1>15 DEF StartGet, Others, Get
  <2> QED BY <1>1, <1>15, <2>1, <2>2 DEF StartGet, Others, obex, strays, bluez
<1>16. ASSUME NEW p \in Players, RemovePlayer(p) PROVE Others'
  <2>1. port' \in [Players -> ObexPorts \cup {0, None}]
    BY <1>1, <1>16 DEF RemovePlayer, Others
  <2>2. operations' \in Seq(Players \cup {"reset"})
    BY <1>1, <1>16 DEF RemovePlayer, Others
  <2> QED BY <1>1, <1>16, <2>1, <2>2 DEF RemovePlayer, Others, obex, strays
<1>17. ASSUME NEW p \in Players, NEW n \in layout.obexPorts \cup {0},
              AddPlayer(p, n) \/ ChangePlayer(p, n)
       PROVE  Others'
  <2>1. n \in ObexPorts \cup {0}
    BY <1>1, BoundsAreNumbers
  <2>2. port' \in [Players -> ObexPorts \cup {0, None}]
    BY <1>1, <1>17, <2>1 DEF AddPlayer, ChangePlayer, Others
  <2>3. spent' \in Spent
    <3>1. CASE AddPlayer(p, n)
      BY <1>1, <3>1, SpentMore DEF AddPlayer, Others
    <3>2. CASE ChangePlayer(p, n)
      BY <1>1, <3>2, SpentMore DEF ChangePlayer, Others
    <3> QED BY <1>17, <3>1, <3>2
  <2>4. [type |-> "register", player |-> p, port |-> n] \in Task
    BY <2>1 DEF Task
  <2>5. tasks' \in Seq(Task)
    BY <1>1, <1>17, <2>4, TaskPut DEF AddPlayer, ChangePlayer, PostRegister
  <2> QED BY <1>1, <1>17, <2>2, <2>3, <2>5 DEF AddPlayer, ChangePlayer, Others, obex, strays
<1>18. ASSUME NEW a \in Adapters, RemoveAdapter(a) PROVE Others'
  <2>1. spent' \in Spent
    <3>1. MaxAdds + 1 \in Nat /\ spent \in Spent
      BY <1>1, BoundsAreNumbers DEF Others
    <3>2. spent' = [spent EXCEPT !.adds = [p \in Players |->
                      IF AdapterOf[DeviceOf[p]] = a THEN MaxAdds + 1 ELSE @[p]]]
      BY <1>18 DEF RemoveAdapter
    <3> HIDE DEF MaxAdds
    <3> QED BY <3>1, <3>2 DEF Spent
  <2>2. operations' \in Seq(Players \cup {"reset"})
    BY <1>1, <1>18 DEF RemoveAdapter, Others
  <2> QED BY <1>1, <1>18, <2>1, <2>2 DEF RemoveAdapter, Others, obex, strays
<1> QED BY <1>2, <1>3, <1>4, <1>5, <1>6, <1>7, <1>8, <1>9, <1>10, <1>10a, <1>11,
           <1>12, <1>13, <1>14, <1>14a, <1>14b, <1>15, <1>16, <1>17, <1>18 DEF Next

----------------------------------------------------------------------------
(* Our own sessions, until obexd is started again                          *)

OursKept ==
    /\ spent.starts >= 1
    /\ spent.starts = 1 =>
         /\ obexd => Kept(State, used)
         /\ ~obexd => \A x \in Paths : live[x] = None

LEMMA BecomeKept ==
  ASSUME NEW r \in States, Become(r), deaf' = deaf, Kept(r, used')
  PROVE  Kept(State, used)'
<1>1. State' = r
  BY DEF State, States, Become
<1> QED BY <1>1 DEF Kept, Own

\* A step that leaves the sessions and obexd alone.
LEMMA KeptUnchanged ==
  ASSUME IInv, OursKept, UNCHANGED <<live, sessions, signals, used, obexd>>,
         deaf \subseteq deaf', spent'.starts = spent.starts
  PROVE  OursKept'
<1>1. Kept(State, used) => Kept(State, used)'
  BY DEF Kept, Own, State
<1> QED BY <1>1 DEF OursKept

LEMMA UnregisterKept ==
  ASSUME IInv, OursKept, NEW p \in Players, Become(Unregistered(State, p)),
         UNCHANGED <<layout, obexd, used, deaf>>, spent'.starts = spent.starts
  PROVE  OursKept'
<1> DEFINE u == Unregistered(State, p)
<1>1. layout \in Layouts /\ Sound(State, used)
  BY DEF IInv, Core
<1>2. Sound(u, used) /\ State.live = live
      /\ \A x \in Paths : u.live[x] # None => u.live[x] = State.live[x]
  BY <1>1, UnregisteredSound DEF State
<1>3. u \in States
  BY <1>2 DEF Sound
<1>4. ASSUME spent.starts = 1, obexd PROVE Kept(State, used)'
  <2>1. Kept(u, used)
    BY <1>1, <1>4, UnregisteredKept DEF OursKept
  <2>2. Kept(u, used')
    BY <2>1
  <2> QED BY <1>3, <2>2, BecomeKept
<1>5. ASSUME spent.starts = 1, ~obexd PROVE \A x \in Paths : live'[x] = None
  BY <1>2, <1>5 DEF OursKept, Become
<1> QED BY <1>4, <1>5 DEF OursKept

LEMMA RegisterReturnsKept ==
  ASSUME IInv, OursKept, NEW p \in Players, NEW n \in ObexPorts \cup {0},
         RegisterReturns(p, n), UNCHANGED <<layout, obexd, deaf>>,
         spent'.starts = spent.starts
  PROVE  OursKept'
<1>0. layout \in Layouts /\ Sound(State, used) /\ State \in States
  BY DEF IInv, Core, Sound
<1>1. CASE Become(Unregistered(State, p)) /\ UNCHANGED used
  BY <1>1, UnregisterKept
<1>2. CASE UNCHANGED <<service, live, signals, used>>
  BY <1>2, KeptUnchanged DEF service
<1>3. ASSUME n # 0, obexd, NEW path \in Candidates(p, n),
             Become(Registered(State, p, n, path)),
             used' = used \cup {x \in {path} : live'[x] # None}
      PROVE  OursKept'
  <2> DEFINE r == Registered(State, p, n, path)
             u == Unregistered(State, p)
  <2>1. path \in Paths /\ n \in ObexPorts
    BY <1>3 DEF Candidates, Matching
  <2>2. r \in States
    BY <1>0, <2>1, RegisteredSound DEF Sound
  <2>3. LET found == Matching(u, DeviceOf[p], n)
        IN IF found # {} THEN path \in found ELSE path \notin used
    BY <1>3 DEF Candidates
  <2>4. r.live[path] # None => path \in used'
    BY <1>3 DEF Become
  <2> HIDE DEF r, u
  <2>5. ASSUME spent.starts = 1 PROVE Kept(State, used)'
    <3>1. Kept(State, used)
      BY <1>3, <2>5 DEF OursKept
    <3>2. Kept(r, used')
      BY <1>0, <1>3, <2>1, <2>2, <2>3, <2>4, <3>1, RegisteredKept DEF r, u
    <3> QED BY <1>3, <2>2, <3>2, BecomeKept DEF r
  <2> QED BY <1>3, <2>5 DEF OursKept
<1> QED BY <1>1, <1>2, <1>3 DEF RegisterReturns

LEMMA RegisterThrowsKept ==
  ASSUME IInv, OursKept, NEW p \in Players, NEW n, RegisterThrows(p, n),
         UNCHANGED <<layout, obexd, deaf>>
  PROVE  OursKept'
<1>0. layout \in Layouts /\ Sound(State, used) /\ State \in States
  BY DEF IInv, Core, Sound
<1>1. used' = used /\ spent'.starts = spent.starts
  BY DEF RegisterThrows, IInv, Others, Spent
<1>2. CASE Become(State)
  BY <1>1, <1>2, KeptUnchanged DEF Become, State
<1>3. CASE Become(Unregistered(State, p))
  BY <1>1, <1>3, UnregisterKept
<1> QED BY <1>2, <1>3 DEF RegisterThrows

LEMMA TakeUnregisterKept == ASSUME IInv, OursKept, TakeUnregister PROVE OursKept'
<1>1. Head(tasks).player \in Players
  BY TaskTaken DEF IInv, TakeUnregister, Task
<1> QED BY <1>1, UnregisterKept DEF TakeUnregister, bluez, strays

LEMMA GetFailsKept == ASSUME IInv, OursKept, GetFails PROVE OursKept'
<1> DEFINE d == DeviceOf[get.player]
           none == Forgot(d)
           c == Close(none, d)
<1>1. /\ layout \in Layouts /\ State \in States /\ State.sessions = sessions
      /\ State.live = live /\ State.signals = signals
  BY DEF IInv, Core, Sound, State
<1>2. d \in Devices /\ UNCHANGED <<obexd, used, deaf>>
      /\ spent'.starts = spent.starts
  BY GetFailsIs DEF GetFails, IInv, Others, Spent
<1>3. /\ none.sessions = sessions /\ none.live = live
      /\ none.signals = signals /\ none \in States
  BY <1>2, ForgotIs
<1> HIDE DEF none, d
<1>4. CASE Become(State)
  BY <1>1, <1>2, <1>4, KeptUnchanged DEF Become
<1>5. Kept(State, used) => Kept(none, used)
  BY <1>1, <1>3, SameKept DEF Alike
<1>6. CASE Become(none)
  <2>1. ASSUME Kept(State, used) PROVE Kept(State, used)'
    <3>1. Kept(none, used')
      BY <1>2, <1>5, <2>1
    <3> QED BY <1>2, <1>3, <1>6, <3>1, BecomeKept
  <2>2. live' = live
    BY <1>3, <1>6 DEF Become
  <2> QED BY <1>2, <2>1, <2>2 DEF OursKept
<1>7. CASE sessions[d] # None /\ Become(c)
  <2>1. /\ c \in States
        /\ \A x \in Paths : c.live[x] # None => c.live[x] = none.live[x]
    BY <1>2, <1>3, <1>7, CloseSessions
  <2>2. ASSUME Kept(State, used) PROVE Kept(State, used)'
    <3>1. Kept(c, used)
      BY <1>2, <1>3, <1>5, <1>7, <2>2, CloseKept
    <3>2. Kept(c, used')
      BY <1>2, <3>1
    <3> HIDE DEF c
    <3> QED BY <1>2, <1>7, <2>1, <3>2, BecomeKept
  <2>3. ASSUME \A x \in Paths : live[x] = None
        PROVE  \A x \in Paths : live'[x] = None
    BY <1>3, <1>7, <2>1, <2>3 DEF Become
  <2> QED BY <1>2, <2>2, <2>3 DEF OursKept
<1> QED BY <1>4, <1>6, <1>7, GetFailsIs DEF none, d

LEMMA TakeResetKept == ASSUME IInv, OursKept, TakeReset PROVE OursKept'
<1> DEFINE recorded == {sessions[d] : d \in {e \in Devices : sessions[e] # None}}
           closed == {s \in Paths : /\ live[s] # None /\ live[s].ours /\ s \notin deaf
                                    /\ \E r \in recorded : r.owned /\ r.path = s}
<1>1. /\ sessions' = [d \in Devices |-> None]
      /\ live' = [s \in Paths |-> IF s \in closed THEN None ELSE live[s]]
      /\ \E order \in SetToSeqs(closed) : signals' = signals \o order
      /\ UNCHANGED <<obexd, used, deaf, spent>>
  BY DEF TakeReset, strays
<1>2. /\ signals \in Seq(Signal) /\ live \in [Paths -> Live \cup {None}]
      /\ {s \in Paths : live[s] # None} \subseteq used
  BY Parts DEF TypeOK
<1>3. Range(signals') \subseteq Range(signals) \cup closed
  <2>1. PICK order \in SetToSeqs(closed) : signals' = signals \o order
    BY <1>1
  <2>2. order \in [1..Cardinality(closed) -> closed] /\ Cardinality(closed) \in Nat
    <3> DEFINE path == [d \in Devices |-> sessions[d].path]
    <3>1. closed \in SUBSET {path[d] : d \in Devices}
      <4> SUFFICES ASSUME NEW s \in closed PROVE s \in {path[d] : d \in Devices}
        OBVIOUS
      <4>1. PICK d \in Devices : sessions[d].path = s
        OBVIOUS
      <4> QED BY <4>1
    <3> HIDE DEF path, closed
    <3> QED BY <3>1, ClosedIsFinite, FS_CardinalityType DEF SetToSeqs
  <2> HIDE DEF closed
  <2>3. order \in Seq(closed)
    BY <2>2
  <2>4. \A i \in 1..Len(signals \o order) :
          \/ i \in 1..Len(signals) /\ (signals \o order)[i] = signals[i]
          \/ i - Len(signals) \in 1..Len(order)
             /\ (signals \o order)[i] = order[i - Len(signals)]
    BY <1>2, <2>3
  <2> QED BY <1>2, <2>1, <2>3, <2>4 DEF Range
<1>4. ASSUME Kept(State, used) PROVE Kept(State, used)'
  <2>1. ASSUME NEW x \in Range(signals')
        PROVE  x \in Paths /\ live'[x] = None /\ x \in used'
    <3>1. CASE x \in closed
      BY <1>1, <1>2, <3>1
    <3>2. CASE x \in Range(signals)
      <4>1. x \in Paths /\ live[x] = None /\ x \in used
        BY <1>4, <3>2 DEF Kept, State
      <4> HIDE DEF closed
      <4> QED BY <1>1, <4>1
    <3> QED BY <1>3, <2>1, <3>1, <3>2
  <2>2. \A x \in Paths : ~(live'[x] # None /\ live'[x].ours /\ ~live'[x].late
                            /\ x \notin deaf)
    <3> SUFFICES ASSUME NEW x \in Paths, live'[x] # None, live'[x].ours,
                        ~live'[x].late, x \notin deaf
                 PROVE  FALSE
      OBVIOUS
    <3>1. x \notin closed /\ Own(State, x) /\ live[x] # None /\ live[x].ours
      BY <1>1 DEF Own, State
    <3>2. PICK d \in Devices : sessions[d] # None /\ sessions[d].path = x
                               /\ sessions[d].owned
      BY <1>4, <3>1 DEF Kept, State
    <3>3. sessions[d] \in recorded
      BY <3>2
    <3> QED BY <3>1, <3>2, <3>3
  <2> HIDE DEF closed
  <2> QED BY <1>1, <2>1, <2>2 DEF Kept, Own, State
<1>5. ASSUME \A x \in Paths : live[x] = None PROVE \A x \in Paths : live'[x] = None
  BY <1>1, <1>5
<1> HIDE DEF closed
<1> QED BY <1>1, <1>4, <1>5 DEF OursKept

LEMMA OursInit == Init => OursKept
<1> SUFFICES ASSUME Init PROVE OursKept
  OBVIOUS
<1>1. spent.starts = 1
  BY DEF Init, Budget
<1>2. \A x \in Paths : ~(live[x] # None /\ live[x].ours)
  BY DEF Init
<1>3. Kept(State, used)
  BY <1>2 DEF Init, Kept, Own, State, Range
<1> QED BY <1>1, <1>3 DEF OursKept, Init

LEMMA OursStep ==
  ASSUME IInv, OursKept, Next
  PROVE  OursKept'
<1>1. /\ TypeOK /\ Others /\ spent \in Spent
      /\ spent.starts \in Nat
  BY Parts DEF IInv, Others, Spent
<1>2. CASE TakeRegister \/ TakeReconnect \/ Forward \/ GetLooks \/ GetEnds
  BY <1>2, KeptUnchanged DEF TakeRegister, TakeReconnect, Forward, GetLooks, GetEnds,
                             obex, strays, service
<1>3. CASE TakeUnregister
  BY <1>3, TakeUnregisterKept
<1>4. CASE TakeReset
  BY <1>4, TakeResetKept
<1>5. ASSUME NEW r \in todo, Register(r[1], r[2]) PROVE OursKept'
  <2>1. r[1] \in Players /\ r[2] \in ObexPorts \cup {0}
    BY <1>1 DEF Others, Registration
  <2>2. UNCHANGED <<layout, obexd, deaf>>
    BY <1>5 DEF Register, bluez
  <2> QED BY <1>5, <2>1, <2>2, RegisterReturnsKept, RegisterThrowsKept DEF Register
<1>6. CASE GetRegister
  <2>1. get.player \in Players /\ get.port \in ObexPorts \cup {0}
    BY <1>1, <1>6 DEF Others, Get, GetRegister
  <2>2. UNCHANGED <<layout, obexd, deaf>>
    BY <1>6 DEF GetRegister, bluez
  <2> QED BY <1>6, <2>1, <2>2, RegisterReturnsKept, RegisterThrowsKept DEF GetRegister
<1>7. CASE GetFails
  BY <1>7, GetFailsKept
<1>8. CASE HandleObexOwner
  <2>1. /\ live' = live /\ obexd' = obexd /\ spent' = spent
        /\ Head(signals) \in {"started", "stopped"} /\ signals # <<>>
    BY <1>8 DEF HandleObexOwner, NextSignal
  <2>2. Head(signals) \in Range(signals)
    BY <1>1, <2>1 DEF TypeOK, Range
  <2>3. ~Kept(State, used)
    BY <2>1, <2>2, CoverArtAssumption DEF Kept, State
  <2> QED BY <2>1, <2>3 DEF OursKept
<1>9. CASE HandleSessionRemoved
  <2> DEFINE gone == Head(signals)
  <2>1. /\ live' = live /\ obexd' = obexd /\ spent' = spent /\ used' = used
        /\ gone \in Paths /\ signals # <<>> /\ signals' = Tail(signals)
        /\ deaf' = deaf
        /\ \A d \in Devices : sessions'[d] # sessions[d] =>
             sessions'[d] = None /\ sessions[d].path = gone
    BY <1>1, <1>9 DEF HandleSessionRemoved, NextSignal, TypeOK, strays
  <2>2. gone \in Range(signals) /\ Range(signals') \subseteq Range(signals)
    <3>1. signals \in Seq(Signal) /\ Len(signals) \in Nat
      BY <1>1 DEF TypeOK
    <3>2. Len(Tail(signals)) = Len(signals) - 1
          /\ \A i \in 1..Len(Tail(signals)) :
               i + 1 \in 1..Len(signals) /\ Tail(signals)[i] = signals[i + 1]
          /\ Head(signals) = signals[1] /\ 1 \in 1..Len(signals)
          /\ Tail(signals) \in Seq(Signal)
      BY <2>1, <3>1
    <3> QED BY <2>1, <3>1, <3>2 DEF Range
  <2>3. ASSUME Kept(State, used) PROVE Kept(State, used)'
    <3>1. live[gone] = None
      BY <2>2, <2>3 DEF Kept, State
    <3>2. \A x \in Range(signals') : x \in Paths /\ live'[x] = None /\ x \in used'
      BY <2>1, <2>2, <2>3 DEF Kept, State
    <3>3. ASSUME NEW x \in Paths, live[x] # None, Own(State, x)
          PROVE  \E d \in Devices : sessions'[d] # None /\ sessions'[d].path = x
                                    /\ sessions'[d].owned
      <4>1. PICK d \in Devices : sessions[d] # None /\ sessions[d].path = x
                                 /\ sessions[d].owned
        BY <2>1, <2>3, <3>3 DEF Kept, State
      <4>2. sessions'[d] = sessions[d]
        BY <2>1, <3>1, <3>3, <4>1
      <4> QED BY <4>1, <4>2
    <3>4. ASSUME NEW d \in Devices, sessions'[d] # None
          PROVE  /\ sessions'[d].path \in used'
                 /\ live'[sessions'[d].path] # None =>
                      /\ live'[sessions'[d].path].device = d
                      /\ live'[sessions'[d].path].port = sessions'[d].port
      <4>1. sessions'[d] = sessions[d]
        BY <2>1, <3>4
      <4> QED BY <2>1, <2>3, <3>4, <4>1 DEF Kept, State
    <3>5. /\ \A x \in Paths : Own(State, x)' => Own(State, x) /\ live[x] # None
          /\ State.sessions' = sessions' /\ State.live' = live'
          /\ State.signals' = signals'
      BY <2>1 DEF Own, State
    <3> QED BY <3>2, <3>3, <3>4, <3>5 DEF Kept
  <2> QED BY <2>1, <2>3 DEF OursKept
<1>10. CASE StartObexd
  <2>1. spent'.starts = spent.starts + 1
    BY <1>1, <1>10 DEF StartObexd, Spent
  <2> QED BY <1>1, <2>1 DEF OursKept
<1>11. CASE StopObexd
  BY <1>11 DEF StopObexd, OursKept
<1>12. ASSUME NEW s \in Paths, DropSession(s) PROVE OursKept'
  <2>1. /\ live[s] # None /\ live' = [live EXCEPT ![s] = None]
        /\ signals' = Append(signals, s)
        /\ sessions' = sessions /\ used' = used /\ obexd' = obexd
        /\ deaf' = deaf /\ spent'.starts = spent.starts
    BY <1>1, <1>12 DEF DropSession, service, strays, Spent
  <2>2. Range(signals') = Range(signals) \cup {s} /\ s \in used
        /\ \A x \in Paths : live'[x] = IF x = s THEN None ELSE live[x]
    BY <1>1, <2>1, RangeAppend DEF TypeOK
  <2>3. ASSUME Kept(State, used) PROVE Kept(State, used)'
    <3>1. \A x \in Range(signals') : x \in Paths /\ live'[x] = None /\ x \in used'
      BY <2>1, <2>2, <2>3 DEF Kept, State
    <3>2. ASSUME NEW d \in Devices, sessions[d] # None
          PROVE  /\ sessions[d].path \in used
                 /\ live'[sessions[d].path] # None =>
                      /\ live'[sessions[d].path].device = d
                      /\ live'[sessions[d].path].port = sessions[d].port
      <4>1. sessions[d].path \in Paths
        BY <1>1, <3>2 DEF TypeOK, Session
      <4> QED BY <2>2, <2>3, <3>2, <4>1 DEF Kept, State
    <3>3. \A x \in Paths : Own(State, x)' => Own(State, x)
      BY <2>1, <2>2 DEF Own, State
    <3>4. \A x \in Paths : Own(State, x)' =>
            \E d \in Devices : sessions[d] # None /\ sessions[d].path = x
                               /\ sessions[d].owned
      BY <2>3, <3>3 DEF Kept, State
    <3>5. /\ State.sessions' = sessions /\ State.live' = live'
          /\ State.signals' = signals'
      BY <2>1 DEF State
    <3> QED BY <2>1, <3>1, <3>2, <3>4, <3>5 DEF Kept
  <2> QED BY <2>1, <2>2, <2>3 DEF OursKept
<1>12a. ASSUME NEW s \in Paths, Refuse(s) PROVE OursKept'
  <2>1. spent'.starts = spent.starts
    BY <1>1, <1>12a DEF Refuse, Spent
  <2> QED BY <1>12a, <2>1, KeptUnchanged DEF Refuse, service
<1>12b. ASSUME NEW s \in Paths, LateSession(s) PROVE OursKept'
  <2>1. ASSUME Kept(State, used) PROVE Kept(State, used)'
    <3>1. \A x \in Range(signals) : x \in Paths /\ live'[x] = None /\ x \in used'
      BY <1>12b, <2>1, LateIs DEF Kept, State
    <3>2. ASSUME NEW d \in Devices, sessions[d] # None
          PROVE  /\ sessions[d].path \in used'
                 /\ live'[sessions[d].path] # None =>
                      /\ live'[sessions[d].path].device = d
                      /\ live'[sessions[d].path].port = sessions[d].port
      <4>1. sessions[d].path \in Paths
        BY <1>1, <3>2 DEF TypeOK, Session
      <4>2. sessions[d].path \in used
        BY <2>1, <3>2 DEF Kept, State
      <4>3. live'[sessions[d].path] = live[sessions[d].path]
        BY <1>12b, <4>1, <4>2, LateIs
      <4> QED BY <1>12b, <2>1, <3>2, <4>2, <4>3, LateIs DEF Kept, State
    <3>3. /\ State.sessions' = sessions /\ State.live' = live'
          /\ State.signals' = signals
      BY <1>12b, LateIs DEF State
    <3>4. \A x \in Paths : Own(State, x)' => Own(State, x)
      BY <1>12b, LateIs DEF Own, State
    <3>5. \A x \in Paths : Own(State, x)' =>
            \E d \in Devices : sessions[d] # None /\ sessions[d].path = x
                               /\ sessions[d].owned
      BY <2>1, <3>4 DEF Kept, State
    <3> QED BY <3>1, <3>2, <3>3, <3>5 DEF Kept
  <2>2. obexd
    BY <1>12b DEF LateSession
  <2> QED BY <1>12b, <2>1, <2>2, LateIs DEF OursKept
<1>13. ASSUME NEW p \in Players, StartGet(p) \/ RemovePlayer(p) PROVE OursKept'
  <2>1. spent'.starts = spent.starts
    BY <1>1, <1>13 DEF StartGet, RemovePlayer, Spent
  <2> QED BY <1>13, <2>1, KeptUnchanged DEF StartGet, RemovePlayer, obex, strays, service
<1>14. ASSUME NEW p \in Players, NEW n, AddPlayer(p, n) \/ ChangePlayer(p, n)
       PROVE  OursKept'
  <2>1. spent'.starts = spent.starts
    BY <1>1, <1>14 DEF AddPlayer, ChangePlayer, Spent
  <2> QED BY <1>14, <2>1, KeptUnchanged DEF AddPlayer, ChangePlayer, obex, strays, service
<1>15. ASSUME NEW a \in Adapters, RemoveAdapter(a) PROVE OursKept'
  <2>1. spent'.starts = spent.starts
    BY <1>1, <1>15 DEF RemoveAdapter, Spent
  <2> QED BY <1>15, <2>1, KeptUnchanged DEF RemoveAdapter, obex, strays, service
<1> QED BY <1>2, <1>3, <1>4, <1>5, <1>6, <1>7, <1>8, <1>9, <1>10, <1>11, <1>12,
           <1>12a, <1>12b, <1>13, <1>14, <1>15 DEF Next

----------------------------------------------------------------------------
(* A record is of a session that is there, or its end is on its way        *)

Told(x, q) == \E i \in 1..Len(q) : q[i] = x

\* The signals q are followed by the ends of sessions only.
Onward(q, r) ==
    /\ Len(q) <= Len(r)
    /\ \A i \in 1..Len(q) : r[i] = q[i]
    /\ \A i \in 1..Len(r) : i > Len(q) => r[i] \in Paths

\* The end of an obexd that has a successor is told before its start.
Ordered(q) ==
    \A i \in 1..Len(q) : q[i] = "stopped" =>
      \E j \in 1..Len(q) : j > i /\ q[j] = "started"

\* Unless obexd has ended unseen, a record is of a session made for its device,
\* and of no other's.
OwnPaths(s, taken) ==
    ~Told("stopped", s.signals) =>
      \A d \in Devices : s.sessions[d] # None =>
        LET path == s.sessions[d].path IN
        /\ path \in taken
        /\ s.live[path] # None => s.live[path].device = d
        /\ \A e \in Devices : e # d /\ s.sessions[e] # None =>
             s.sessions[e].path # path

\* Unless obexd has started unseen, a recorded session is there or its end is
\* told.
EndsTold(s) ==
    ~Told("started", s.signals) =>
      \A d \in Devices : s.sessions[d] # None =>
        \/ s.live[s.sessions[d].path] # None
        \/ Told(s.sessions[d].path, s.signals)

\* While obexd runs its ends are told before its starts as well.
Recent(s, taken) ==
    OwnPaths(s, taken) /\ (obexd => EndsTold(s) /\ Ordered(s.signals))

\* A critical section about device d: other records stay, what is closed is
\* told, and the record of d is of the session it was of, of one that was found,
\* or of a new one.
Move(s, t, d, taken, then) ==
    /\ Onward(s.signals, t.signals)
    /\ \A e \in Devices : e # d => t.sessions[e] = s.sessions[e]
    /\ \A x \in Paths : s.live[x] # None =>
         t.live[x] = s.live[x] \/ Told(x, t.signals)
    /\ \A x \in Paths : t.live[x] # None =>
         t.live[x] = s.live[x] \/ (x \notin taken /\ t.live[x].device = d)
    /\ t.sessions[d] # None =>
         LET path == t.sessions[d].path IN
         \/ s.sessions[d] # None /\ s.sessions[d].path = path
         \/ s.live[path] # None /\ s.live[path].device = d
         \/ path \notin taken /\ path \in then /\ t.live[path] # None

LEMMA Events == "started" \notin Paths /\ "stopped" \notin Paths
BY CoverArtAssumption

LEMMA OnwardTold ==
  ASSUME NEW q \in Seq(Signal), NEW r \in Seq(Signal), Onward(q, r), NEW x
  PROVE  /\ Told(x, q) => Told(x, r)
         /\ x \notin Paths /\ Told(x, r) => Told(x, q)
<1>1. Len(q) \in Nat /\ Len(r) \in Nat
  OBVIOUS
<1> QED BY <1>1 DEF Onward, Told

LEMMA OnwardOrdered ==
  ASSUME NEW q \in Seq(Signal), NEW r \in Seq(Signal), Onward(q, r), Ordered(q)
  PROVE  Ordered(r)
<1>1. Len(q) \in Nat /\ Len(r) \in Nat
  OBVIOUS
<1> SUFFICES ASSUME NEW i \in 1..Len(r), r[i] = "stopped"
             PROVE  \E j \in 1..Len(r) : j > i /\ r[j] = "started"
  BY DEF Ordered
<1>2. i \in 1..Len(q) /\ q[i] = "stopped"
  BY <1>1, Events DEF Onward
<1>3. PICK j \in 1..Len(q) : j > i /\ q[j] = "started"
  BY <1>2 DEF Ordered
<1> QED BY <1>1, <1>3 DEF Onward

LEMMA OnwardSame == ASSUME NEW q \in Seq(Signal) PROVE Onward(q, q)
BY DEF Onward

LEMMA OnwardAppend ==
  ASSUME NEW q \in Seq(Signal), NEW x \in Paths
  PROVE  Onward(q, Append(q, x)) /\ Told(x, Append(q, x))
<1>1. /\ Len(q) \in Nat /\ Len(Append(q, x)) = Len(q) + 1
      /\ \A i \in 1..Len(q) : Append(q, x)[i] = q[i]
      /\ Append(q, x)[Len(q) + 1] = x
  OBVIOUS
<1> QED BY <1>1 DEF Onward, Told

LEMMA AppendOwner ==
  ASSUME NEW q \in Seq(Signal), NEW x
  PROVE  /\ Told(x, Append(q, x))
         /\ \A y : Told(y, q) => Told(y, Append(q, x))
         /\ x = "started" => Ordered(Append(q, x))
<1>1. /\ Len(q) \in Nat /\ Len(Append(q, x)) = Len(q) + 1
      /\ \A i \in 1..Len(q) : Append(q, x)[i] = q[i]
      /\ Append(q, x)[Len(q) + 1] = x
  OBVIOUS
<1>2. Len(q) + 1 \in 1..Len(Append(q, x))
  BY <1>1
<1>3. ASSUME x = "started", NEW i \in 1..Len(Append(q, x)),
             Append(q, x)[i] = "stopped"
      PROVE  Len(q) + 1 > i
  <2>1. i # Len(q) + 1
    BY <1>1, <1>3
  <2> QED BY <1>1, <2>1
<1>4. x = "started" => Ordered(Append(q, x))
  BY <1>1, <1>2, <1>3 DEF Ordered
<1>5. \A y : Told(y, q) => Told(y, Append(q, x))
  BY <1>1 DEF Told
<1> QED BY <1>1, <1>2, <1>4, <1>5 DEF Told

LEMMA TailTold ==
  ASSUME NEW q \in Seq(Signal), q # <<>>
  PROVE  /\ Told(Head(q), q)
         /\ \A x : Told(x, Tail(q)) => Told(x, q)
         /\ \A x : Told(x, q) => x = Head(q) \/ Told(x, Tail(q))
         /\ Ordered(q) => Ordered(Tail(q))
<1>1. /\ Len(q) \in Nat /\ Len(q) >= 1 /\ Len(Tail(q)) = Len(q) - 1
      /\ \A i \in 1..Len(q) - 1 : Tail(q)[i] = q[i + 1]
      /\ Head(q) = q[1]
  OBVIOUS
<1>2. \A i \in 1..Len(q) : i = 1 \/ (i - 1 \in 1..Len(q) - 1 /\ Tail(q)[i - 1] = q[i])
  <2> SUFFICES ASSUME NEW i \in 1..Len(q), i # 1
               PROVE  i - 1 \in 1..Len(q) - 1 /\ Tail(q)[i - 1] = q[i]
    OBVIOUS
  <2>1. i - 1 \in 1..Len(q) - 1 /\ (i - 1) + 1 = i
    BY <1>1
  <2> QED BY <1>1, <2>1
<1>3. \A x : Told(x, q) => x = Head(q) \/ Told(x, Tail(q))
  BY <1>1, <1>2 DEF Told
<1>4. ASSUME Ordered(q) PROVE Ordered(Tail(q))
  <2> SUFFICES ASSUME NEW i \in 1..Len(q) - 1, Tail(q)[i] = "stopped"
               PROVE  \E j \in 1..Len(q) - 1 : j > i /\ Tail(q)[j] = "started"
    BY <1>1 DEF Ordered
  <2>1. q[i + 1] = "stopped" /\ i + 1 \in 1..Len(q)
    BY <1>1
  <2>2. PICK j \in 1..Len(q) : j > i + 1 /\ q[j] = "started"
    BY <1>4, <2>1 DEF Ordered
  <2> QED BY <1>1, <1>2, <2>2
<1>5. \A x : Told(x, Tail(q)) => Told(x, q)
  BY <1>1 DEF Told
<1> QED BY <1>1, <1>3, <1>4, <1>5 DEF Told

LEMMA OrderedStarts ==
  ASSUME NEW q, Ordered(q), ~Told("started", q)
  PROVE  ~Told("stopped", q)
BY DEF Ordered, Told

\* A critical section keeps the records recent.
LEMMA MoveOwnPaths ==
  ASSUME NEW s \in States, NEW t \in States, NEW taken, NEW then,
         taken \subseteq then, Within(s, taken), NEW d \in Devices,
         Move(s, t, d, taken, then), OwnPaths(s, taken)
  PROVE  OwnPaths(t, then)
<1> SUFFICES ASSUME ~Told("stopped", t.signals)
             PROVE  OwnPaths(t, then)
  BY DEF OwnPaths
<1>1. ~Told("stopped", s.signals)
  BY OnwardTold DEF Move, States
<1>2. ASSUME NEW e \in Devices, t.sessions[e] # None
      PROVE  /\ t.sessions[e].path \in then
             /\ t.live[t.sessions[e].path] # None =>
                  t.live[t.sessions[e].path].device = e
  <2> DEFINE path == t.sessions[e].path
  <2>1. path \in Paths
    BY <1>2 DEF States, Session
  <2>2. CASE s.sessions[e] # None /\ s.sessions[e].path = path
    <3>1. path \in taken /\ (s.live[path] # None => s.live[path].device = e)
      BY <1>1, <2>2 DEF OwnPaths
    <3> QED BY <2>1, <3>1 DEF Move
  <2>3. CASE e = d /\ s.live[path] # None /\ s.live[path].device = d
    <3>1. path \in taken
      BY <2>1, <2>3 DEF Within
    <3> QED BY <2>1, <2>3, <3>1 DEF Move
  <2>4. CASE e = d /\ path \notin taken /\ path \in then
    <3>1. s.live[path] = None
      BY <2>1, <2>4 DEF Within
    <3> QED BY <2>1, <2>4, <3>1 DEF Move
  <2>5. CASE e # d
    <3>1. s.sessions[e] = t.sessions[e]
      BY <2>5 DEF Move
    <3> QED BY <1>2, <2>2, <3>1
  <2> QED BY <1>2, <2>2, <2>3, <2>4, <2>5 DEF Move
<1>3. ASSUME NEW e \in Devices, e # d, t.sessions[e] # None, t.sessions[d] # None
      PROVE  t.sessions[e].path # t.sessions[d].path
  <2> DEFINE path == t.sessions[d].path
  <2>1. s.sessions[e] = t.sessions[e] /\ s.sessions[e] # None
    BY <1>3 DEF Move
  <2>2. s.sessions[e].path \in taken
        /\ (s.live[s.sessions[e].path] # None =>
              s.live[s.sessions[e].path].device = e)
    BY <1>1, <2>1 DEF OwnPaths
  <2>3. CASE s.sessions[d] # None /\ s.sessions[d].path = path
    BY <1>1, <1>3, <2>1, <2>3 DEF OwnPaths
  <2>4. CASE s.live[path] # None /\ s.live[path].device = d
    BY <1>3, <2>1, <2>2, <2>4
  <2>5. CASE path \notin taken
    BY <2>1, <2>2, <2>5
  <2> QED BY <1>3, <2>3, <2>4, <2>5 DEF Move
<1>4. ASSUME NEW e \in Devices, NEW f \in Devices, e # d, f # d, e # f,
             t.sessions[e] # None, t.sessions[f] # None
      PROVE  t.sessions[e].path # t.sessions[f].path
  BY <1>1, <1>4 DEF OwnPaths, Move
<1> QED BY <1>2, <1>3, <1>4 DEF OwnPaths

LEMMA MoveEndsTold ==
  ASSUME NEW s \in States, NEW t \in States, NEW taken, NEW then,
         NEW d \in Devices,
         Move(s, t, d, taken, then), EndsTold(s)
  PROVE  EndsTold(t)
<1> SUFFICES ASSUME ~Told("started", t.signals), NEW e \in Devices,
                    t.sessions[e] # None
             PROVE  \/ t.live[t.sessions[e].path] # None
                    \/ Told(t.sessions[e].path, t.signals)
  BY DEF EndsTold
<1> DEFINE path == t.sessions[e].path
<1>1. path \in Paths
  BY DEF States, Session
<1>2. ~Told("started", s.signals)
      /\ (Told(path, s.signals) => Told(path, t.signals))
  BY OnwardTold DEF Move, States
<1>3. s.live[path] # None => t.live[path] # None \/ Told(path, t.signals)
  BY <1>1 DEF Move
<1>4. CASE s.sessions[e] # None /\ s.sessions[e].path = path
  BY <1>2, <1>3, <1>4 DEF EndsTold
<1>5. CASE e # d
  <2>1. s.sessions[e] = t.sessions[e]
    BY <1>5 DEF Move
  <2> QED BY <1>4, <2>1
<1> QED BY <1>3, <1>4, <1>5 DEF Move

LEMMA MoveRecent ==
  ASSUME NEW s \in States, NEW t \in States, NEW taken, NEW then,
         taken \subseteq then, Within(s, taken), NEW d \in Devices,
         Move(s, t, d, taken, then), Recent(s, taken)
  PROVE  Recent(t, then)
<1>1. Ordered(s.signals) => Ordered(t.signals)
  BY OnwardOrdered DEF Move, States
<1> QED BY <1>1, MoveOwnPaths, MoveEndsTold DEF Recent

----------------------------------------------------------------------------
(* The critical sections are such moves                                    *)

LEMMA CloseMoves ==
  ASSUME NEW s \in States, NEW d \in Devices, s.sessions[d] # None,
         NEW taken, NEW then
  PROVE  Move(s, Close(s, d), d, taken, then)
<1> DEFINE c == Close(s, d)
           path == s.sessions[d].path
<1>1. /\ c.sessions = [s.sessions EXCEPT ![d] = None]
      /\ \A x \in Paths : c.live[x] # None => c.live[x] = s.live[x]
  BY CloseSessions
<1>2. path \in Paths /\ s.signals \in Seq(Signal)
  BY DEF States, Session
<1>3. /\ Onward(s.signals, c.signals)
      /\ \A x \in Paths : s.live[x] # None => c.live[x] = s.live[x] \/ Told(x, c.signals)
  <2>1. CASE Removed(s, d)
    <3>1. /\ c.live = [s.live EXCEPT ![path] = None]
          /\ c.signals = Append(s.signals, path)
      BY <2>1, CloseIs
    <3>2. \A x \in Paths : x # path => c.live[x] = s.live[x]
      BY <3>1 DEF States
    <3> QED BY <1>2, <3>1, <3>2, OnwardAppend
  <2>2. CASE ~Removed(s, d)
    <3>1. c.live = s.live /\ c.signals = s.signals
      BY <2>2, CloseIs
    <3> QED BY <1>2, <3>1, OnwardSame
  <2> QED BY <2>1, <2>2
<1> HIDE DEF c
<1>4. \A e \in Devices : c.sessions[e] = IF e = d THEN None ELSE s.sessions[e]
  BY <1>1 DEF States
<1> QED BY <1>1, <1>3, <1>4 DEF Move, c

\* So is one that changes the number of users, at most.
LEMMA AlikeMoves ==
  ASSUME NEW s \in States, NEW t \in States, NEW d \in Devices,
         t.live = s.live, t.signals = s.signals,
         \A e \in Devices : e # d => t.sessions[e] = s.sessions[e],
         Alike(t.sessions[d], s.sessions[d]), NEW taken, NEW then
  PROVE  Move(s, t, d, taken, then)
<1>1. Onward(s.signals, t.signals)
  BY OnwardSame DEF States
<1> QED BY <1>1 DEF Move, Alike

LEMMA UnregisteredMoves ==
  ASSUME layout \in Layouts, NEW s, NEW taken, Sound(s, taken),
         NEW p \in Players, NEW then
  PROVE  Move(s, Unregistered(s, p), DeviceOf[p], taken, then)
<1> DEFINE d == DeviceOf[p]
           u == Unregistered(s, p)
           left == [s EXCEPT !.players[p] = 0]
<1>1. /\ s \in States /\ d \in Devices
      /\ left \in States /\ left.sessions = s.sessions /\ left.live = s.live
      /\ left.signals = s.signals
  BY UnregisteredIs DEF Sound
<1>2. u \in States
  BY UnregisteredSound DEF Sound
<1> HIDE DEF left
<1>3. CASE u = s \/ u = left
  BY <1>1, <1>3, AlikeMoves DEF Alike
<1>4. CASE s.sessions[d] # None /\ s.sessions[d].users > 1
           /\ u = [left EXCEPT !.sessions[d].users = @ - 1]
  <2> DEFINE v == [s.sessions[d] EXCEPT !.users = @ - 1]
  <2>1. s.sessions[d] \in Session
    BY <1>1, <1>4 DEF States
  <2>2. /\ u.sessions = [s.sessions EXCEPT ![d] = v]
        /\ u.live = s.live /\ u.signals = s.signals
    BY <1>1, <1>4 DEF States
  <2>3. /\ v.path = s.sessions[d].path /\ v.port = s.sessions[d].port
        /\ v.owned = s.sessions[d].owned /\ v \in Session /\ v # None
    BY <1>4, <2>1, CoverArtAssumption DEF Session
  <2> HIDE DEF v, u, d
  <2>4. \A e \in Devices : u.sessions[e] = IF e = d THEN v ELSE s.sessions[e]
    BY <1>1, <2>2 DEF States
  <2>5. Alike(u.sessions[d], s.sessions[d])
    BY <1>1, <1>4, <2>3, <2>4 DEF Alike
  <2>6. Move(s, u, d, taken, then)
    BY <1>1, <1>2, <2>2, <2>4, <2>5, AlikeMoves DEF u
  <2> QED BY <2>6 DEF u, d
<1>5. CASE s.sessions[d] # None /\ u = Close(left, d)
  <2>1. Move(left, u, d, taken, then)
    BY <1>1, <1>5, CloseMoves
  <2> QED BY <1>1, <2>1 DEF Move
<1> QED BY <1>3, <1>4, <1>5, UnregisteredIs, <1>1 DEF left

\* The record of d is entered over what a registration has found or made.
LEMMA EnteredMoves ==
  ASSUME NEW u \in States, NEW b \in States, NEW r \in States, NEW d \in Devices,
         NEW v \in Session, NEW taken, NEW then,
         r.live = b.live, r.signals = b.signals,
         \A e \in Devices : r.sessions[e] = IF e = d THEN v ELSE u.sessions[e],
         Onward(u.signals, b.signals),
         \A x \in Paths : u.live[x] # None =>
           b.live[x] = u.live[x] \/ Told(x, b.signals),
         \A x \in Paths : b.live[x] # None =>
           b.live[x] = u.live[x] \/ (x \notin taken /\ b.live[x].device = d),
         \/ u.sessions[d] # None /\ u.sessions[d].path = v.path
         \/ u.live[v.path] # None /\ u.live[v.path].device = d
         \/ v.path \notin taken /\ v.path \in then /\ b.live[v.path] # None
  PROVE  Move(u, r, d, taken, then)
<1>1. r.sessions[d] = v
  OBVIOUS
<1>2. \A e \in Devices : e # d => r.sessions[e] = u.sessions[e]
  OBVIOUS
<1> QED BY <1>1, <1>2 DEF Move

LEMMA RegisteredMoves ==
  ASSUME layout \in Layouts, NEW s, NEW taken, Sound(s, taken),
         NEW p \in Players, NEW n \in ObexPorts, NEW path \in Paths,
         NEW u, u = Unregistered(s, p),
         LET found == Matching(u, DeviceOf[p], n)
         IN IF found # {} THEN path \in found ELSE path \notin taken,
         NEW then, taken \subseteq then,
         Registered(s, p, n, path).live[path] # None => path \in then,
         Registered(s, p, n, path) \in States
  PROVE  /\ Move(u, Registered(s, p, n, path), DeviceOf[p], taken, then)
         /\ Registered(s, p, n, path).sessions[DeviceOf[p]] # None
<1> DEFINE d == DeviceOf[p]
           made == Made(u, d, n, path)
           new == Recorded(u, d, n, path)
           r == Registered(s, p, n, path)
           base == Base(u, d, n, path)
           value == Value(u, d, n, path)
<1>0. d \in Devices
  BY CoverArtAssumption DEF DeviceOf
<1>1. Sound(u, taken)
  BY UnregisteredSound
<1>2. u \in States /\ Within(u, taken) /\ u.signals \in Seq(Signal)
  BY <1>1 DEF Sound, States
<1>3. /\ made \in States /\ made.sessions = u.sessions
      /\ made.signals = u.signals
  <2>1. made \in States
    BY <1>0, <1>1, MadeIs
  <2> QED BY <1>2, <2>1 DEF Made, States
<1>4. new \in Session /\ new.path = path
  <2>1. u.sessions[d] # None => u.sessions[d].users \in Nat
    BY <1>0, <1>2 DEF States, Session
  <2>2. new \in Session
    BY <2>1 DEF Recorded, Session
  <2> QED BY <2>2 DEF Recorded
<1>5. r = Entered(base, d, value, p, n) /\ r \in States
  BY RegisteredIs
<1>6. Fresh(d, n) # None /\ Fresh(d, n).device = d
  <2>1. Fresh(d, n) \in Live
    BY <1>0 DEF Live, Fresh
  <2> QED BY <2>1, CoverArtAssumption DEF Fresh
<1>7. \A v \in Session : v # None
  BY CoverArtAssumption
\* What was made or found is new, or of this device.
<1>8. /\ \A x \in Paths : u.live[x] # None => made.live[x] = u.live[x]
      /\ \A x \in Paths : made.live[x] # None =>
           made.live[x] = u.live[x] \/ (x \notin taken /\ made.live[x].device = d)
      /\ \/ u.live[path] # None /\ u.live[path].device = d
         \/ path \notin taken /\ made.live[path] # None
  <2>1. CASE Matching(u, d, n) # {}
    <3>1. made = u
      BY <2>1 DEF Made
    <3>2. path \in Matching(u, d, n)
      BY <2>1
    <3> QED BY <3>1, <3>2 DEF Matching
  <2>2. CASE Matching(u, d, n) = {}
    <3>1. path \notin taken
      BY <2>2
    <3>2. made.live = [u.live EXCEPT ![path] = Fresh(d, n)]
      BY <1>2, <2>2 DEF Made, States
    <3>3. \A x \in Paths : made.live[x] = IF x = path THEN Fresh(d, n) ELSE u.live[x]
      BY <1>2, <3>2 DEF States
    <3>4. u.live[path] = None
      BY <1>2, <3>1 DEF Within
    <3> HIDE DEF made
    <3> QED BY <1>6, <3>1, <3>3, <3>4
  <2> QED BY <2>1, <2>2
<1> HIDE DEF r, d, made, new
<1>9. ASSUME NEW b \in States, NEW v \in Session, r = Entered(b, d, v, p, n),
             \A e \in Devices : e # d => b.sessions[e] = u.sessions[e]
      PROVE  /\ r.live = b.live /\ r.signals = b.signals
             /\ \A e \in Devices : r.sessions[e] = IF e = d THEN v ELSE u.sessions[e]
             /\ r.sessions[d] # None
  BY <1>0, <1>7, <1>9 DEF Entered, States
<1>10. CASE u.sessions[d] # None /\ u.sessions[d].port = n
  <2> DEFINE v == [u.sessions[d] EXCEPT !.users = @ + 1]
  <2>1. u.sessions[d] \in Session
    BY <1>0, <1>2, <1>10 DEF States
  <2>2. v \in Session /\ v.path = u.sessions[d].path
    BY <2>1 DEF Session
  <2>3. r = Entered(u, d, v, p, n)
    BY <1>5, <1>10 DEF Base, Value
  <2> HIDE DEF v
  <2>4. Onward(u.signals, u.signals)
    BY <1>2, OnwardSame
  <2>5. Move(u, r, d, taken, then)
    BY <1>0, <1>2, <1>5, <1>9, <1>10, <2>2, <2>3, <2>4, EnteredMoves
  <2> QED BY <1>2, <1>9, <2>2, <2>3, <2>5 DEF r, d
<1>11. CASE u.sessions[d] = None
  <2>1. r = Entered(made, d, new, p, n)
    BY <1>5, <1>11 DEF Base, Value, made, new
  <2>2. /\ r.live = made.live /\ r.signals = made.signals /\ r.sessions[d] # None
        /\ \A e \in Devices : r.sessions[e] = IF e = d THEN new ELSE u.sessions[e]
    BY <1>3, <1>4, <1>9, <2>1
  <2>3. made.live[path] # None => path \in then
    BY <2>2 DEF r
  <2>4. Onward(u.signals, made.signals)
    BY <1>2, <1>3, OnwardSame
  <2>5. Move(u, r, d, taken, then)
    BY <1>0, <1>2, <1>3, <1>4, <1>5, <1>8, <2>2, <2>3, <2>4, EnteredMoves, SMTT(30)
  <2> QED BY <2>2, <2>5 DEF r, d
<1>12. CASE u.sessions[d] # None /\ u.sessions[d].port # n
  <2> DEFINE c == Close(made, d)
             old == u.sessions[d].path
  <2>1. r = Entered(c, d, new, p, n)
    BY <1>5, <1>12 DEF Base, Value, made, new
  <2>2. made.sessions[d] # None /\ made.sessions[d].path = old
    BY <1>3, <1>12
  <2>3. /\ c \in States /\ c.sessions = [made.sessions EXCEPT ![d] = None]
        /\ \A x \in Paths : c.live[x] # None => c.live[x] = made.live[x]
    BY <1>0, <1>3, <2>2, CloseSessions
  <2>4. \A e \in Devices : e # d => c.sessions[e] = u.sessions[e]
    BY <1>3, <2>3 DEF States
  <2>5. Move(made, c, d, taken, then)
    BY <1>0, <1>3, <2>2, CloseMoves
  <2> HIDE DEF c
  <2>6. /\ r.live = c.live /\ r.signals = c.signals /\ r.sessions[d] # None
        /\ \A e \in Devices : r.sessions[e] = IF e = d THEN new ELSE u.sessions[e]
    BY <1>4, <1>9, <2>1, <2>3, <2>4
  <2>7. Onward(u.signals, c.signals)
    BY <1>3, <2>5 DEF Move
  <2>8. \A x \in Paths : u.live[x] # None => c.live[x] = u.live[x] \/ Told(x, c.signals)
    BY <1>8, <2>5 DEF Move
  <2>9. \A x \in Paths : c.live[x] # None =>
          c.live[x] = u.live[x] \/ (x \notin taken /\ c.live[x].device = d)
    BY <1>8, <2>3
  <2>10. \A x \in Paths : x # old => c.live[x] = made.live[x]
    <3>1. CASE Removed(made, d)
      <4>1. c.live = [made.live EXCEPT ![old] = None]
        BY <1>0, <1>3, <2>2, <3>1, CloseEnds DEF c
      <4> QED BY <1>3, <4>1 DEF States
    <3>2. CASE ~Removed(made, d)
      BY <1>0, <1>3, <2>2, <3>2, CloseForgets DEF c
    <3> QED BY <3>1, <3>2
  <2>11. c.live[path] # None => path \in then
    BY <2>6 DEF r
  <2>12. \/ old = path
         \/ u.live[path] # None /\ u.live[path].device = d
         \/ path \notin taken /\ path \in then /\ c.live[path] # None
    <3>1. CASE u.live[path] # None /\ u.live[path].device = d
      BY <3>1
    <3>2. CASE path \notin taken /\ made.live[path] # None /\ path # old
      <4>1. c.live[path] = made.live[path]
        BY <2>10, <3>2
      <4> QED BY <2>11, <3>2, <4>1
    <3> QED BY <1>8, <3>1, <3>2
  <2>13. \/ u.sessions[d] # None /\ u.sessions[d].path = new.path
         \/ u.live[new.path] # None /\ u.live[new.path].device = d
         \/ new.path \notin taken /\ new.path \in then /\ c.live[new.path] # None
    BY <1>4, <1>12, <2>12
  <2>14. Move(u, r, d, taken, then)
    <3>1. c \in States /\ new \in Session /\ u \in States /\ r \in States
          /\ d \in Devices
      BY <1>0, <1>2, <1>4, <1>5, <2>3
    <3>2. \A e \in Devices : r.sessions[e] = IF e = d THEN new ELSE u.sessions[e]
      BY <2>6
    <3> HIDE DEF old
    <3> QED BY <2>6, <2>7, <2>8, <2>9, <2>13, <3>1, <3>2, EnteredMoves, SMTT(30)
  <2> QED BY <2>6, <2>14 DEF r, d
<1> QED BY <1>10, <1>11, <1>12

----------------------------------------------------------------------------
(* A player that has its device for itself gets a session again            *)

Sole(p) == \A q \in Players \ {p} : DeviceOf[q] # DeviceOf[p]

Reconnects(q) == \E i \in 1..Len(q) : q[i].type = "reconnect"

\* A session is recorded, or one is about to be looked for.
Awaits(p) ==
    \/ Told("started", signals)
    \/ Reconnects(tasks)
    \/ \E r \in todo : r[1] = p
    \/ sessions[DeviceOf[p]] # None

WillServe ==
    obexd /\ ~failed =>
      \A p \in Players : players[p] # 0 /\ Sole(p) => Awaits(p)

IsRecent == Recent(State, used)

\* What a critical section of player p leaves of the state.
Moved(p) ==
    /\ IsRecent'
    /\ Told("started", signals) => Told("started", signals')
    /\ \A d \in Devices : d # DeviceOf[p] => sessions'[d] = sessions[d]

LEMMA StateIs ==
  ASSUME IInv
  PROVE  /\ layout \in Layouts /\ Sound(State, used) /\ State \in States
         /\ Within(State, used)
         /\ State.players = players /\ State.sessions = sessions
         /\ State.live = live /\ State.signals = signals
         /\ signals \in Seq(Signal)
         /\ \A p \in Players : DeviceOf[p] \in Devices
<1>1. layout \in Layouts /\ Sound(State, used)
  BY DEF IInv, Core
<1>2. signals \in Seq(Signal)
  BY Parts DEF TypeOK
<1>3. \A p \in Players : DeviceOf[p] \in Devices
  BY <1>1, CoverArtAssumption DEF DeviceOf
<1> QED BY <1>1, <1>2, <1>3 DEF Sound, State

LEMMA BecomeMoved ==
  ASSUME IInv, NEW p \in Players, NEW r \in States, Become(r), obexd' = obexd,
         Recent(r, used'), Onward(signals, r.signals),
         \A d \in Devices : d # DeviceOf[p] => r.sessions[d] = sessions[d]
  PROVE  Moved(p)
<1>1. State' = r
  BY DEF State, States, Become
<1>2. IsRecent' <=> Recent(r, used')
  BY <1>1 DEF IsRecent, Recent, OwnPaths, EndsTold, Ordered, Told
<1>3. signals \in Seq(Signal) /\ r.signals \in Seq(Signal)
  BY StateIs DEF States
<1>4. Told("started", signals) => Told("started", signals')
  BY <1>3, OnwardTold DEF Become
<1> QED BY <1>2, <1>4 DEF Moved, Become

LEMMA OnwardOn ==
  ASSUME NEW q \in Seq(Signal), NEW r \in Seq(Signal), NEW t \in Seq(Signal),
         Onward(q, r), Onward(r, t)
  PROVE  Onward(q, t)
<1>1. Len(q) \in Nat /\ Len(r) \in Nat /\ Len(t) \in Nat
  OBVIOUS
<1> QED BY <1>1 DEF Onward

\* A step that leaves the sessions and obexd alone.
LEMMA UnchangedRecent ==
  ASSUME IsRecent, UNCHANGED <<live, sessions, signals, used, obexd>>
  PROVE  IsRecent'
BY DEF IsRecent, Recent, OwnPaths, EndsTold, Ordered, Told, State

LEMMA UnregisterMoves ==
  ASSUME IInv, IsRecent, NEW p \in Players, Become(Unregistered(State, p)),
         UNCHANGED <<obexd, used>>
  PROVE  Moved(p) /\ players' = [players EXCEPT ![p] = 0]
<1> DEFINE u == Unregistered(State, p)
<1>1. /\ Sound(u, used) /\ u \in States
      /\ u.players = [State.players EXCEPT ![p] = 0]
  BY StateIs, UnregisteredSound DEF Sound
<1>2. Move(State, u, DeviceOf[p], used, used)
  BY StateIs, UnregisteredMoves
<1> HIDE DEF u
<1>3. Recent(u, used)
  BY <1>1, <1>2, StateIs, MoveRecent DEF IsRecent
<1>4. Recent(u, used')
  BY <1>3
<1>5. Onward(signals, u.signals)
      /\ \A d \in Devices : d # DeviceOf[p] => u.sessions[d] = sessions[d]
  BY <1>2, StateIs DEF Move
<1>6. Become(u)
  BY DEF u
<1> QED BY <1>1, <1>4, <1>5, <1>6, StateIs, BecomeMoved DEF Become

LEMMA RegisterReturnsMoves ==
  ASSUME IInv, IsRecent, NEW p \in Players, NEW n \in ObexPorts \cup {0},
         RegisterReturns(p, n), obexd' = obexd
  PROVE  /\ Moved(p)
         /\ players'[p] # 0 => sessions'[DeviceOf[p]] # None
         /\ \A q \in Players : q # p => players'[q] = players[q]
<1>0. /\ p \in Players /\ DeviceOf[p] \in Devices
      /\ players \in [Players -> ObexPorts \cup {0}]
  BY StateIs, Parts DEF TypeOK
<1>1. CASE Become(Unregistered(State, p)) /\ UNCHANGED used
  BY <1>0, <1>1, UnregisterMoves
<1>2. CASE Served(p, n) /\ UNCHANGED <<service, live, signals, used>>
  BY <1>2, UnchangedRecent DEF service, Served, Moved
<1>3. ASSUME n # 0, NEW path \in Candidates(p, n),
             Become(Registered(State, p, n, path)),
             used' = used \cup {x \in {path} : live'[x] # None}
      PROVE  /\ Moved(p) /\ sessions'[DeviceOf[p]] # None
             /\ \A q \in Players : q # p => players'[q] = players[q]
  <2> DEFINE r == Registered(State, p, n, path)
             u == Unregistered(State, p)
             d == DeviceOf[p]
  <2>1. path \in Paths /\ n \in ObexPorts
    BY <1>3 DEF Candidates, Matching
  <2>2. r \in States
    BY StateIs, <2>1, RegisteredSound DEF Sound
  <2>3. LET found == Matching(u, DeviceOf[p], n)
        IN IF found # {} THEN path \in found ELSE path \notin used
    BY <1>3 DEF Candidates
  <2>4. r.live[path] # None => path \in used'
    BY <1>3 DEF Become
  <2>5. /\ Sound(u, used) /\ u \in States /\ Within(u, used)
        /\ u.players = [State.players EXCEPT ![p] = 0]
    BY StateIs, UnregisteredSound DEF Sound
  <2>6. Move(State, u, d, used, used)
    BY StateIs, UnregisteredMoves
  <2>7. Move(u, r, d, used, used') /\ r.sessions[d] # None
    <3>1. layout \in Layouts /\ Sound(State, used)
      BY StateIs
    <3>2. used \subseteq used'
      BY <1>3
    <3> QED BY <3>1, <3>2, <2>1, <2>2, <2>3, <2>4, RegisteredMoves
  <2>8. \A q \in Players : q # p => r.players[q] = players[q]
    <3>1. r = Entered(Base(u, d, n, path), d, Value(u, d, n, path), p, n)
      BY RegisteredIs
    <3>2. Base(u, d, n, path).players = u.players /\ Base(u, d, n, path) \in States
      <4>1. /\ Made(u, d, n, path) \in States
            /\ Made(u, d, n, path).players = u.players
            /\ Made(u, d, n, path).sessions = u.sessions
        <5>1. Made(u, d, n, path) \in States
          <6> HIDE DEF u, d
          <6> QED BY <1>0, <2>1, <2>5, MadeIs DEF d
        <5> HIDE DEF u
        <5> QED BY <2>5, <5>1 DEF Made, States
      <4> HIDE DEF u, d
      <4>2. u.sessions[d] # None =>
              /\ Close(Made(u, d, n, path), d).players = u.players
              /\ Close(Made(u, d, n, path), d) \in States
        BY <1>0, <4>1, CloseSessions, ZenonT(60) DEF d
      <4> QED BY <2>5, <4>1, <4>2 DEF Base
    <3> HIDE DEF u, d, r
    <3>3. \A q \in Players : q # p => r.players[q] = u.players[q]
      BY <3>1, <3>2 DEF Entered, States
    <3> QED BY <1>0, <2>5, <3>3, StateIs
  <2> HIDE DEF u, r
  <2>9. Recent(u, used)
    BY <1>0, <2>5, <2>6, StateIs, MoveRecent DEF IsRecent
  <2>10. Recent(r, used')
    BY <1>0, <1>3, <2>2, <2>5, <2>7, <2>9, MoveRecent
  <2>11. Onward(signals, r.signals)
         /\ \A e \in Devices : e # d => r.sessions[e] = sessions[e]
    <3>1. u.signals \in Seq(Signal) /\ r.signals \in Seq(Signal)
      BY <2>2, <2>5 DEF States
    <3> QED BY <2>6, <2>7, <3>1, StateIs, OnwardOn DEF Move
  <2>12. Become(r)
    BY <1>3 DEF r
  <2>13. Moved(p)
    BY <2>2, <2>10, <2>11, <2>12, BecomeMoved
  <2> QED BY <2>7, <2>8, <2>12, <2>13 DEF Become
<1> QED BY <1>1, <1>2, <1>3, <1>0, StateIs, UnregisterMoves DEF RegisterReturns

LEMMA RegisterThrowsMoves ==
  ASSUME IInv, IsRecent, NEW p \in Players, NEW n, RegisterThrows(p, n),
         obexd' = obexd
  PROVE  /\ Moved(p)
         /\ obexd => failed'
         /\ failed => failed'
<1>1. used' = used /\ (obexd => failed') /\ (failed => failed')
  BY DEF RegisterThrows
<1>2. CASE Become(State)
  BY <1>1, <1>2, UnchangedRecent DEF Become, State, Moved
<1>3. CASE Become(Unregistered(State, p))
  BY <1>1, <1>3, UnregisterMoves
<1> QED BY <1>1, <1>2, <1>3 DEF RegisterThrows

\* The fetch that fails ends the record of its device.
LEMMA GetFailsMoves == ASSUME IInv, IsRecent, GetFails PROVE IsRecent'
<1> DEFINE p == get.player
           d == DeviceOf[p]
           none == Forgot(d)
           c == Close(none, d)
<1>1. /\ p \in Players /\ d \in Devices /\ obexd' = obexd /\ used' = used
  BY GetFailsIs
<1>2. /\ none \in States /\ none.sessions = sessions /\ none.live = live
      /\ none.signals = signals
  BY <1>1, ForgotIs
<1>3. Within(none, used) /\ Recent(none, used)
  BY <1>2, StateIs DEF Within, IsRecent, Recent, OwnPaths, EndsTold
<1> HIDE DEF none, d, p
<1>4. CASE Become(State)
  BY <1>1, <1>4, UnchangedRecent DEF Become, State
<1>5. CASE Become(none)
  BY <1>1, <1>2, <1>5, UnchangedRecent DEF Become
<1>6. CASE sessions[d] # None /\ Become(c)
  <2>1. c \in States /\ Move(none, c, d, used, used)
    BY <1>1, <1>2, <1>6, CloseSessions, CloseMoves
  <2> HIDE DEF c
  <2>2. Recent(c, used)
    BY <1>1, <1>2, <1>3, <2>1, MoveRecent
  <2>3. Recent(c, used') /\ Onward(signals, c.signals)
        /\ \A e \in Devices : e # d => c.sessions[e] = sessions[e]
    BY <1>1, <1>2, <2>1, <2>2 DEF Move
  <2>4. Moved(p)
    BY <1>1, <1>6, <2>1, <2>3, BecomeMoved DEF d, p
  <2> QED BY <2>4 DEF Moved
<1> QED BY <1>4, <1>5, <1>6, GetFailsIs DEF none, d, p

\* A reset leaves no record.
LEMMA ResetRecent == ASSUME IInv, IsRecent, TakeReset PROVE IsRecent'
<1> DEFINE recorded == {sessions[d] : d \in {e \in Devices : sessions[e] # None}}
           closed == {s \in Paths : /\ live[s] # None /\ live[s].ours /\ s \notin deaf
                                    /\ \E r \in recorded : r.owned /\ r.path = s}
           path == [d \in Devices |-> sessions[d].path]
<1>1. /\ sessions' = [d \in Devices |-> None] /\ obexd' = obexd
      /\ \E order \in SetToSeqs(closed) : signals' = signals \o order
  BY DEF TakeReset
<1>2. closed \in SUBSET {path[d] : d \in Devices}
  <2> SUFFICES ASSUME NEW s \in closed PROVE s \in {path[d] : d \in Devices}
    OBVIOUS
  <2>1. PICK d \in Devices : sessions[d].path = s
    OBVIOUS
  <2> QED BY <2>1
<1>3. closed \subseteq Paths
  OBVIOUS
<1> HIDE DEF closed, path
<1>4. PICK order \in SetToSeqs(closed) : signals' = signals \o order
  BY <1>1
<1>5. order \in Seq(Paths) /\ order \in Seq(Signal)
  <2>1. order \in Seq(closed)
    BY <1>2, ClosedIsFinite, OrderIsSeq
  <2> QED BY <1>3, <2>1 DEF Signal
<1>6. signals \in Seq(Signal) /\ signals' \in Seq(Signal)
  BY <1>4, <1>5, StateIs
<1>7. Onward(signals, signals')
  <2>1. /\ Len(signals) \in Nat /\ Len(order) \in Nat
        /\ Len(signals \o order) = Len(signals) + Len(order)
        /\ \A i \in 1..Len(signals) : (signals \o order)[i] = signals[i]
        /\ \A i \in 1..Len(signals) + Len(order) : i > Len(signals) =>
             (signals \o order)[i] = order[i - Len(signals)]
    BY <1>5, <1>6
  <2>2. ASSUME NEW i \in 1..Len(signals) + Len(order), i > Len(signals)
        PROVE  (signals \o order)[i] \in Paths
    <3>1. i - Len(signals) \in 1..Len(order)
      BY <2>1, <2>2
    <3>2. order[i - Len(signals)] \in Paths
      BY <1>5, <3>1
    <3> QED BY <2>1, <2>2, <3>2
  <2> QED BY <1>4, <2>1, <2>2 DEF Onward
<1>8. Ordered(signals) => Ordered(signals')
  BY <1>6, <1>7, OnwardOrdered
<1>9. /\ OwnPaths(State, used)' /\ EndsTold(State)'
      /\ Ordered(State.signals)' = Ordered(signals')
      /\ Ordered(State.signals) = Ordered(signals)
  BY <1>1 DEF OwnPaths, EndsTold, State
<1> QED BY <1>1, <1>8, <1>9 DEF IsRecent, Recent

LEMMA RecentStep ==
  ASSUME IInv, IsRecent, Next
  PROVE  IsRecent'
<1>1. signals \in Seq(Signal) /\ Others
  BY StateIs DEF IInv
<1>2. CASE TakeRegister \/ TakeReconnect \/ Forward \/ GetLooks \/ GetEnds
  BY <1>2, UnchangedRecent DEF TakeRegister, TakeReconnect, Forward, GetLooks,
                               GetEnds, obex, strays, service
<1>3. CASE TakeUnregister
  <2>1. Head(tasks).player \in Players
    BY <1>1, <1>3, TaskTaken DEF TakeUnregister, Task
  <2> QED BY <1>3, <2>1, UnregisterMoves DEF TakeUnregister, Moved
<1>4. CASE TakeReset
  BY <1>4, ResetRecent
<1>5. ASSUME NEW r \in todo, Register(r[1], r[2]) PROVE IsRecent'
  <2>1. r[1] \in Players /\ r[2] \in ObexPorts \cup {0}
    BY <1>1 DEF Others, Registration
  <2> QED BY <1>5, <2>1, RegisterReturnsMoves, RegisterThrowsMoves
          DEF Register, Moved
<1>6. CASE GetRegister
  <2>1. get.player \in Players /\ get.port \in ObexPorts \cup {0}
    BY <1>1, <1>6 DEF Others, Get, GetRegister
  <2> QED BY <1>6, <2>1, RegisterReturnsMoves, RegisterThrowsMoves
          DEF GetRegister, Moved
<1>7. CASE GetFails
  BY <1>7, GetFailsMoves
<1>8. CASE HandleObexOwner
  <2>1. /\ signals # <<>> /\ signals' = Tail(signals) /\ obexd' = obexd
        /\ sessions' = [d \in Devices |-> None]
    BY <1>8 DEF HandleObexOwner, NextSignal
  <2>2. Ordered(signals) => Ordered(signals')
    BY <1>1, <2>1, TailTold
  <2> QED BY <2>1, <2>2 DEF IsRecent, Recent, OwnPaths, EndsTold, State
<1>9. CASE HandleSessionRemoved
  <2> DEFINE gone == Head(signals)
             D == {d \in Devices : sessions[d] # None /\ sessions[d].path = gone}
  <2>1. /\ live' = live /\ obexd' = obexd /\ used' = used
        /\ gone \in Paths /\ signals # <<>> /\ signals' = Tail(signals)
        /\ IF D = {} THEN sessions' = sessions
           ELSE \E d \in D : sessions' = [sessions EXCEPT ![d] = None]
    BY <1>9 DEF HandleSessionRemoved, NextSignal
  <2>2. sessions \in [Devices -> Session \cup {None}]
    BY Parts DEF TypeOK
  <2>3. \A x : x # gone => (Told(x, signals) <=> Told(x, signals'))
    BY <1>1, <2>1, TailTold
  <2>4. /\ Told("started", signals) <=> Told("started", signals')
        /\ Told("stopped", signals) <=> Told("stopped", signals')
    BY <2>1, <2>3, Events
  <2>5. \A d \in Devices : sessions'[d] # None => sessions'[d] = sessions[d]
    BY <2>1, <2>2
  <2>6. OwnPaths(State, used)'
    BY <2>1, <2>4, <2>5 DEF IsRecent, Recent, OwnPaths, State
  <2>7. ASSUME obexd, ~Told("started", signals), NEW d \in Devices,
               sessions'[d] # None
        PROVE  live[sessions[d].path] # None \/ Told(sessions[d].path, signals')
    <3>1. ~Told("stopped", signals)
      BY <2>7, OrderedStarts DEF IsRecent, Recent, State
    <3>2. sessions[d] # None
          /\ (live[sessions[d].path] # None \/ Told(sessions[d].path, signals))
      BY <2>5, <2>7 DEF IsRecent, Recent, EndsTold, State
    <3>3. sessions[d].path # gone
      <4> SUFFICES ASSUME sessions[d].path = gone PROVE FALSE
        OBVIOUS
      <4>1. d \in D
        BY <3>2
      <4>2. PICK e \in D : sessions' = [sessions EXCEPT ![e] = None]
        BY <2>1, <4>1
      <4>3. e # d
        BY <2>2, <2>7, <4>2
      <4> QED BY <3>1, <3>2, <4>3 DEF IsRecent, Recent, OwnPaths, State
    <3> QED BY <2>3, <3>2, <3>3
  <2>8. obexd => EndsTold(State)'
    BY <2>1, <2>4, <2>5, <2>7 DEF EndsTold, State
  <2>9. Ordered(signals) => Ordered(signals')
    BY <1>1, <2>1, TailTold
  <2> QED BY <2>1, <2>6, <2>8, <2>9 DEF IsRecent, Recent, State
<1>10. CASE StartObexd
  <2>1. /\ signals' = Append(signals, "started")
        /\ UNCHANGED <<sessions, live, used>>
    BY <1>10 DEF StartObexd, service
  <2>2. /\ Told("started", signals') /\ Ordered(signals')
        /\ Told("stopped", signals) => Told("stopped", signals')
    BY <1>1, <2>1, AppendOwner
  <2> QED BY <2>1, <2>2 DEF IsRecent, Recent, OwnPaths, EndsTold, State
<1>11. CASE StopObexd
  <2>1. signals' = Append(signals, "stopped") /\ obexd' = FALSE
    BY <1>11 DEF StopObexd
  <2>2. Told("stopped", signals')
    BY <1>1, <2>1, AppendOwner
  <2> QED BY <2>1, <2>2 DEF IsRecent, Recent, OwnPaths, State
<1>12. ASSUME NEW s \in Paths, DropSession(s) PROVE IsRecent'
  <2>1. /\ live' = [live EXCEPT ![s] = None] /\ obexd' = obexd /\ used' = used
        /\ signals' = Append(signals, s) /\ sessions' = sessions
    BY <1>12 DEF DropSession, service
  <2>2. /\ live \in [Paths -> Live \cup {None}]
        /\ \A d \in Devices : sessions[d] # None => sessions[d].path \in Paths
    BY Parts DEF TypeOK, Session
  <2>3. \A x \in Paths : live'[x] = IF x = s THEN None ELSE live[x]
    BY <2>1, <2>2
  <2>4. Onward(signals, signals') /\ Told(s, signals') /\ signals' \in Seq(Signal)
    <3>1. s \in Signal
      BY DEF Signal
    <3> QED BY <1>1, <2>1, <3>1, OnwardAppend
  <2>5. /\ \A x : Told(x, signals) => Told(x, signals')
        /\ Ordered(signals) => Ordered(signals')
    BY <1>1, <2>4, OnwardTold, OnwardOrdered
  <2>6. OwnPaths(State, used)'
    <3> SUFFICES ASSUME ~Told("stopped", signals'), NEW d \in Devices,
                        sessions[d] # None
                 PROVE  LET path == sessions[d].path IN
                        /\ path \in used
                        /\ live'[path] # None => live'[path].device = d
                        /\ \A e \in Devices : e # d /\ sessions[e] # None =>
                             sessions[e].path # path
      BY <2>1 DEF OwnPaths, State
    <3>1. ~Told("stopped", signals)
      BY <2>5
    <3> QED BY <2>2, <2>3, <3>1 DEF IsRecent, Recent, OwnPaths, State
  <2>7. obexd => EndsTold(State)'
    <3> SUFFICES ASSUME obexd, ~Told("started", signals'), NEW d \in Devices,
                        sessions[d] # None
                 PROVE  \/ live'[sessions[d].path] # None
                        \/ Told(sessions[d].path, signals')
      BY <2>1 DEF EndsTold, State
    <3>1. live[sessions[d].path] # None \/ Told(sessions[d].path, signals)
      BY <2>5 DEF IsRecent, Recent, EndsTold, State
    <3> QED BY <2>2, <2>3, <2>4, <2>5, <3>1
  <2> QED BY <2>1, <2>5, <2>6, <2>7 DEF IsRecent, Recent, State
<1>12a. ASSUME NEW s \in Paths, Refuse(s) PROVE IsRecent'
  BY <1>12a, UnchangedRecent DEF Refuse, service
<1>12b. ASSUME NEW s \in Paths, LateSession(s) PROVE IsRecent'
  <2>1. \A d \in Devices : sessions[d] # None => sessions[d].path \in Paths
    BY Parts DEF TypeOK, Session
  <2>2. OwnPaths(State, used)'
    <3> SUFFICES ASSUME ~Told("stopped", signals), NEW d \in Devices,
                        sessions[d] # None
                 PROVE  LET path == sessions[d].path IN
                        /\ path \in used'
                        /\ live'[path] # None => live'[path].device = d
                        /\ \A e \in Devices : e # d /\ sessions[e] # None =>
                             sessions[e].path # path
      BY <1>12b, LateIs DEF OwnPaths, State
    <3>1. /\ sessions[d].path \in used
          /\ live[sessions[d].path] # None => live[sessions[d].path].device = d
          /\ \A e \in Devices : e # d /\ sessions[e] # None =>
               sessions[e].path # sessions[d].path
      BY DEF IsRecent, Recent, OwnPaths, State
    <3>2. live'[sessions[d].path] = live[sessions[d].path]
          /\ sessions[d].path \in used'
      BY <1>12b, <2>1, <3>1, LateIs
    <3> QED BY <3>1, <3>2
  <2>3. \A x \in Paths : live[x] # None => live'[x] # None
    BY <1>12b, LateIs
  <2>4. EndsTold(State) => EndsTold(State)'
    BY <1>12b, <2>1, <2>3, LateIs DEF EndsTold, State
  <2>5. obexd' = obexd /\ State.signals' = State.signals
    BY <1>12b, LateIs DEF State
  <2> QED BY <2>2, <2>4, <2>5 DEF IsRecent, Recent
<1>13. ASSUME NEW p \in Players, StartGet(p) \/ RemovePlayer(p) PROVE IsRecent'
  BY <1>13, UnchangedRecent DEF StartGet, RemovePlayer, obex, strays, service
<1>14. ASSUME NEW p \in Players, NEW n, AddPlayer(p, n) \/ ChangePlayer(p, n)
       PROVE  IsRecent'
  BY <1>14, UnchangedRecent DEF AddPlayer, ChangePlayer, obex, strays, service
<1>15. ASSUME NEW a \in Adapters, RemoveAdapter(a) PROVE IsRecent'
  BY <1>15, UnchangedRecent DEF RemoveAdapter, obex, strays, service
<1> QED BY <1>2, <1>3, <1>4, <1>5, <1>6, <1>7, <1>8, <1>9, <1>10, <1>11, <1>12,
           <1>12a, <1>12b, <1>13, <1>14, <1>15 DEF Next

LEMMA ReconnectsOn ==
  ASSUME NEW q \in Seq(Task)
  PROVE  /\ \A t : Reconnects(q) \/ t.type = "reconnect" => Reconnects(Append(q, t))
         /\ q # <<>> /\ Reconnects(q) =>
              Head(q).type = "reconnect" \/ Reconnects(Tail(q))
<1>1. Len(q) \in Nat
  OBVIOUS
<1>2. ASSUME NEW t, Reconnects(q) \/ t.type = "reconnect"
      PROVE  Reconnects(Append(q, t))
  <2>1. /\ Len(Append(q, t)) = Len(q) + 1
        /\ \A i \in 1..Len(q) : Append(q, t)[i] = q[i]
        /\ Append(q, t)[Len(q) + 1] = t
    OBVIOUS
  <2>2. Len(q) + 1 \in 1..Len(Append(q, t))
    BY <1>1, <2>1
  <2>3. CASE t.type = "reconnect"
    BY <2>1, <2>2, <2>3 DEF Reconnects
  <2>4. CASE Reconnects(q)
    <3>1. PICK i \in 1..Len(q) : q[i].type = "reconnect"
      BY <2>4 DEF Reconnects
    <3>2. i \in 1..Len(Append(q, t)) /\ Append(q, t)[i] = q[i]
      BY <1>1, <2>1
    <3> QED BY <3>1, <3>2 DEF Reconnects
  <2> QED BY <1>2, <2>3, <2>4
<1>3. ASSUME q # <<>>, Reconnects(q), Head(q).type # "reconnect"
      PROVE  Reconnects(Tail(q))
  <2>1. /\ Len(Tail(q)) = Len(q) - 1 /\ Head(q) = q[1]
        /\ \A i \in 1..Len(q) - 1 : Tail(q)[i] = q[i + 1]
    BY <1>1, <1>3
  <2>2. PICK i \in 1..Len(q) : q[i].type = "reconnect"
    BY <1>3 DEF Reconnects
  <2>3. i # 1
    BY <1>3, <2>1, <2>2
  <2>4. i - 1 \in 1..Len(q) - 1 /\ (i - 1) + 1 = i
    BY <1>1, <2>3
  <2>5. Tail(q)[i - 1] = q[i]
    BY <2>1, <2>4
  <2> QED BY <2>1, <2>2, <2>4, <2>5 DEF Reconnects
<1> QED BY <1>2, <1>3

\* What is planned for a player stays planned.
Planned(q) == Reconnects(tasks) \/ \E r \in todo : r[1] = q

LEMMA QuietServe ==
  ASSUME IInv, WillServe, UNCHANGED <<layout, players, sessions>>,
         obexd' => obexd, failed => failed',
         Told("started", signals) => Told("started", signals'),
         \A q \in Players : players[q] # 0 /\ Planned(q) => Planned(q)'
  PROVE  WillServe'
<1> SUFFICES ASSUME obexd', ~failed', NEW q \in Players, players'[q] # 0, Sole(q)'
             PROVE  Awaits(q)'
  BY DEF WillServe
<1>1. Sole(q) /\ players[q] # 0
  BY DEF Sole, DeviceOf
<1>2. Awaits(q)
  BY <1>1 DEF WillServe
<1>3. sessions[DeviceOf[q]] # None => sessions'[DeviceOf[q]'] # None
  BY DEF DeviceOf
<1> QED BY <1>1, <1>2, <1>3 DEF Awaits, Planned

LEMMA MovedServe ==
  ASSUME IInv, WillServe, NEW p \in Players, Moved(p), layout' = layout,
         obexd' = obexd, failed => failed',
         \A q \in Players : q # p => players'[q] = players[q],
         \A q \in Players : q # p /\ Planned(q) => Planned(q)',
         players'[p] # 0 => sessions'[DeviceOf[p]] # None
  PROVE  WillServe'
<1> SUFFICES ASSUME obexd', ~failed', NEW q \in Players, players'[q] # 0, Sole(q)'
             PROVE  Awaits(q)'
  BY DEF WillServe
<1>1. Sole(q) /\ DeviceOf' = DeviceOf
  BY DEF Sole, DeviceOf
<1>2. CASE q = p
  BY <1>1, <1>2 DEF Awaits
<1>3. CASE q # p
  <2>1. Awaits(q)
    BY <1>1, <1>3 DEF WillServe
  <2>2. DeviceOf[p] # DeviceOf[q] /\ DeviceOf[q] \in Devices
    BY <1>1, <1>3, StateIs DEF Sole
  <2>3. sessions'[DeviceOf[q]] = sessions[DeviceOf[q]]
    BY <2>2 DEF Moved
  <2> QED BY <1>1, <1>3, <2>1, <2>3 DEF Awaits, Planned, Moved
<1> QED BY <1>2, <1>3

LEMMA ServeStep ==
  ASSUME IInv, IsRecent, WillServe, Next
  PROVE  WillServe'
<1>1. /\ Others /\ signals \in Seq(Signal) /\ tasks \in Seq(Task)
      /\ todo \subseteq Registration
  BY StateIs DEF IInv, Others
<1>2. ASSUME NEW t, tasks' = Append(tasks, t), todo' = todo
      PROVE  /\ \A q : Planned(q) => Planned(q)'
             /\ t.type = "reconnect" => Reconnects(tasks')
  BY <1>1, <1>2, ReconnectsOn DEF Planned
<1>3. CASE TakeRegister
  <2>1. /\ todo = {} /\ tasks # <<>> /\ Head(tasks).type = "register"
        /\ tasks' = Tail(tasks)
    BY <1>3 DEF TakeRegister, TakeTask
  <2>2. \A q : Planned(q) => Planned(q)'
    BY <1>1, <2>1, ReconnectsOn DEF Planned
  <2> QED BY <1>3, <2>2, QuietServe DEF TakeRegister, obex, strays, service, bluez
<1>4. CASE TakeReconnect
  <2>1. \A q \in Players : players[q] # 0 => <<q, players[q]>> \in todo'
    BY <1>4 DEF TakeReconnect
  <2>2. \A q \in Players : players[q] # 0 => Planned(q)'
    BY <2>1 DEF Planned
  <2> QED BY <1>4, <2>2, QuietServe DEF TakeReconnect, obex, strays, service, bluez
<1>5. CASE TakeUnregister
  <2> DEFINE p == Head(tasks).player
  <2>1. /\ todo = {} /\ tasks # <<>> /\ Head(tasks).type = "unregister"
        /\ tasks' = Tail(tasks) /\ todo' = todo /\ obexd' = obexd
        /\ failed' = failed /\ layout' = layout /\ used' = used
        /\ Become(Unregistered(State, p))
    BY <1>5 DEF TakeUnregister, TakeTask, bluez
  <2>2. p \in Players
    BY <1>1, <1>5, TaskTaken DEF TakeUnregister, Task
  <2>3. Moved(p) /\ players' = [players EXCEPT ![p] = 0]
    BY <2>1, <2>2, UnregisterMoves
  <2>4. \A q : Planned(q) => Planned(q)'
    BY <1>1, <2>1, ReconnectsOn DEF Planned
  <2>5. players \in [Players -> ObexPorts \cup {0}]
    BY Parts DEF TypeOK
  <2> HIDE DEF p
  <2>6. players'[p] = 0 /\ \A q \in Players : q # p => players'[q] = players[q]
    BY <2>2, <2>3, <2>5
  <2> QED BY <2>1, <2>2, <2>3, <2>4, <2>6, MovedServe
<1>6. CASE TakeReset
  BY <1>6 DEF TakeReset, WillServe
<1>7. ASSUME NEW r \in todo, Register(r[1], r[2]) PROVE WillServe'
  <2>1. r[1] \in Players /\ r[2] \in ObexPorts \cup {0} /\ r = <<r[1], r[2]>>
    BY <1>1 DEF Registration
  <2>2. /\ todo' = todo \ {<<r[1], r[2]>>} /\ tasks' = tasks
        /\ obexd' = obexd /\ layout' = layout
    BY <1>7 DEF Register, bluez
  <2>3. \A q : q # r[1] /\ Planned(q) => Planned(q)'
    BY <2>1, <2>2 DEF Planned
  <2>4. CASE RegisterReturns(r[1], r[2]) /\ UNCHANGED <<spent, failed>>
    <3>1. /\ Moved(r[1])
          /\ players'[r[1]] # 0 => sessions'[DeviceOf[r[1]]] # None
          /\ \A q \in Players : q # r[1] => players'[q] = players[q]
      BY <2>1, <2>2, <2>4, RegisterReturnsMoves
    <3> QED BY <2>1, <2>2, <2>3, <2>4, <3>1, MovedServe
  <2>5. CASE RegisterThrows(r[1], r[2])
    <3>1. obexd => failed'
      BY <2>1, <2>2, <2>5, RegisterThrowsMoves
    <3> QED BY <2>2, <3>1 DEF WillServe
  <2> QED BY <1>7, <2>4, <2>5 DEF Register
<1>8. CASE GetRegister
  <2> DEFINE p == get.player
  <2>1. p \in Players /\ get.port \in ObexPorts \cup {0}
    BY <1>1, <1>8 DEF Others, Get, GetRegister
  <2>2. /\ todo' = todo /\ tasks' = tasks /\ obexd' = obexd /\ layout' = layout
    BY <1>8 DEF GetRegister, bluez
  <2>3. \A q : Planned(q) => Planned(q)'
    BY <2>2 DEF Planned
  <2>4. CASE RegisterReturns(p, get.port) /\ UNCHANGED <<spent, failed>>
    <3>1. /\ Moved(p)
          /\ players'[p] # 0 => sessions'[DeviceOf[p]] # None
          /\ \A q \in Players : q # p => players'[q] = players[q]
      BY <2>1, <2>2, <2>4, RegisterReturnsMoves
    <3> QED BY <2>1, <2>2, <2>3, <2>4, <3>1, MovedServe
  <2>5. CASE RegisterThrows(p, get.port)
    <3>1. obexd => failed'
      BY <2>1, <2>2, <2>5, RegisterThrowsMoves
    <3> QED BY <2>2, <3>1 DEF WillServe
  <2> QED BY <1>8, <2>4, <2>5 DEF GetRegister
<1>9. CASE GetFails
  <2> DEFINE p == get.player
             d == DeviceOf[p]
  <2>1. /\ p \in Players /\ d \in Devices
        /\ UNCHANGED <<layout, obexd, failed, tasks, todo>>
    BY <1>9, GetFailsIs
  <2>2. \A q : Planned(q) => Planned(q)'
    BY <2>1 DEF Planned
  <2>3. CASE Become(State)
    BY <2>1, <2>2, <2>3, QuietServe DEF Become, State
\* Of the players of the device, none is left to wait for a session.
  <2>4. ASSUME NEW r \in States, Become(r), Onward(signals, r.signals),
               r.players = Forgot(d).players,
               \A e \in Devices : e # d => r.sessions[e] = sessions[e]
        PROVE  WillServe'
    <3> SUFFICES ASSUME obexd, ~failed, NEW q \in Players, players'[q] # 0, Sole(q)'
                 PROVE  Awaits(q)'
      BY <2>1 DEF WillServe
    <3> HIDE DEF d, p
    <3>1. DeviceOf' = DeviceOf
      BY <2>1 DEF DeviceOf
    <3>2. Sole(q) /\ DeviceOf[q] \in Devices
      BY <3>1, StateIs DEF Sole
    <3>3. players'[q] = IF DeviceOf[q] = d THEN 0 ELSE players[q]
      <4>1. players' = Forgot(d).players
        BY <2>4 DEF Become
      <4> QED BY <2>1, <4>1, ForgotIs
    <3>4. players[q] # 0 /\ DeviceOf[q] # d /\ Sole(q) /\ DeviceOf' = DeviceOf
          /\ DeviceOf[q] \in Devices
      BY <3>1, <3>2, <3>3
    <3>5. Awaits(q)
      BY <3>4 DEF WillServe
    <3>6. sessions'[DeviceOf[q]] = sessions[DeviceOf[q]]
      BY <2>4, <3>4 DEF Become
    <3>7. Told("started", signals) => Told("started", signals')
      BY <1>1, <2>4, OnwardTold DEF Become, States
    <3> QED BY <2>2, <3>4, <3>5, <3>6, <3>7 DEF Awaits, Planned
  <2>5. /\ Forgot(d) \in States /\ Forgot(d).sessions = sessions
        /\ Forgot(d).signals = signals
    BY <2>1, ForgotIs
  <2>6. CASE Become(Forgot(d))
    BY <1>1, <2>4, <2>5, <2>6, OnwardSame
  <2>7. CASE sessions[d] # None /\ Become(Close(Forgot(d), d))
    <3>1. /\ Close(Forgot(d), d) \in States
          /\ Close(Forgot(d), d).players = Forgot(d).players
      BY <2>1, <2>5, <2>7, CloseSessions
    <3>2. Move(Forgot(d), Close(Forgot(d), d), d, used, used)
      BY <2>1, <2>5, <2>7, CloseMoves
    <3> QED BY <2>4, <2>5, <2>7, <3>1, <3>2 DEF Move
  <2> QED BY <1>9, <2>3, <2>6, <2>7, GetFailsIs
<1>10. CASE Forward
  <2>1. \A q : Planned(q) => Planned(q)'
    BY <1>2, <1>10 DEF Forward
  <2> QED BY <1>10, <2>1, QuietServe DEF Forward, obex, strays, service
<1>11. CASE GetLooks \/ GetEnds
  BY <1>11, QuietServe
     DEF GetLooks, GetEnds, Planned, obex, strays, service, bluez
<1>12. CASE HandleObexOwner
  <2>1. /\ signals # <<>> /\ signals' = Tail(signals) /\ obexd' = obexd
        /\ Head(signals) \in {"started", "stopped"}
        /\ tasks' = IF Head(signals) = "started"
                    THEN Append(tasks, [type |-> "reconnect"]) ELSE tasks
    BY <1>12 DEF HandleObexOwner, NextSignal
  <2>2. CASE Head(signals) = "started"
    <3>1. Reconnects(Append(tasks, [type |-> "reconnect"]))
      BY <1>1, ReconnectsOn
    <3> QED BY <2>1, <2>2, <3>1 DEF WillServe, Awaits
  <2>3. CASE Head(signals) = "stopped" /\ obexd
    <3>1. Ordered(signals)
      BY <2>3 DEF IsRecent, Recent, State
    <3>2. Told("stopped", signals)
      BY <1>1, <2>1, <2>3, TailTold
    <3>3. Told("started", signals)
      BY <3>1, <3>2, OrderedStarts
    <3>4. Told("started", signals')
      BY <1>1, <2>1, <2>3, <3>3, TailTold
    <3> QED BY <3>4 DEF WillServe, Awaits
  <2> QED BY <2>1, <2>2, <2>3 DEF WillServe
<1>13. CASE HandleSessionRemoved
  <2> DEFINE D == {d \in Devices : sessions[d] # None
                                   /\ sessions[d].path = Head(signals)}
  <2>1. /\ signals # <<>> /\ signals' = Tail(signals) /\ Head(signals) \in Paths
        /\ UNCHANGED <<obexd, layout, players, todo, failed>>
        /\ IF D = {} THEN UNCHANGED <<sessions, tasks>>
           ELSE tasks' = Append(tasks, [type |-> "reconnect"])
    BY <1>13 DEF HandleSessionRemoved, NextSignal, bluez
  <2>2. CASE D = {}
    <3>1. Told("started", signals) => Told("started", signals')
      BY <1>1, <2>1, TailTold, Events
    <3> QED BY <2>1, <2>2, <3>1, QuietServe DEF Planned
  <2>3. CASE D # {}
    <3>1. Reconnects(Append(tasks, [type |-> "reconnect"]))
      BY <1>1, ReconnectsOn
    <3> QED BY <2>1, <2>3, <3>1 DEF WillServe, Awaits
  <2> QED BY <2>2, <2>3
<1>14. CASE StartObexd
  <2>1. Told("started", signals')
    BY <1>1, <1>14, AppendOwner DEF StartObexd
  <2> QED BY <2>1 DEF WillServe, Awaits
<1>15. CASE StopObexd
  BY <1>15 DEF StopObexd, WillServe
<1>16. ASSUME NEW s \in Paths, DropSession(s) PROVE WillServe'
  <2>1. Told("started", signals) => Told("started", signals')
    BY <1>1, <1>16, AppendOwner DEF DropSession
  <2> QED BY <1>16, <2>1, QuietServe DEF DropSession, Planned, service, bluez
<1>16a. ASSUME NEW s \in Paths, Refuse(s) PROVE WillServe'
  BY <1>16a, QuietServe DEF Refuse, Planned, service, bluez
<1>16b. ASSUME NEW s \in Paths, LateSession(s) PROVE WillServe'
  BY <1>16b, QuietServe DEF LateSession, Planned, service, bluez
<1>17. ASSUME NEW p \in Players, StartGet(p) \/ RemovePlayer(p) PROVE WillServe'
  BY <1>17, QuietServe DEF StartGet, RemovePlayer, Planned, obex, strays, service, bluez
<1>18. ASSUME NEW p \in Players, NEW n, AddPlayer(p, n) \/ ChangePlayer(p, n)
       PROVE  WillServe'
  <2>1. \A q : Planned(q) => Planned(q)'
    BY <1>2, <1>18 DEF AddPlayer, ChangePlayer, PostRegister
  <2> QED BY <1>18, <2>1, QuietServe DEF AddPlayer, ChangePlayer, obex, strays, service
<1>19. ASSUME NEW a \in Adapters, RemoveAdapter(a) PROVE WillServe'
  BY <1>19, QuietServe DEF RemoveAdapter, Planned, obex, strays, service
<1> QED BY <1>3, <1>4, <1>5, <1>6, <1>7, <1>8, <1>9, <1>10, <1>11, <1>12, <1>13,
           <1>14, <1>15, <1>16, <1>16a, <1>16b, <1>17, <1>18, <1>19 DEF Next

LEMMA ServeInit == Init => IsRecent /\ WillServe
<1> SUFFICES ASSUME Init PROVE IsRecent /\ WillServe
  OBVIOUS
<1>1. /\ signals = <<>> /\ players = [p \in Players |-> 0]
      /\ sessions = [d \in Devices |-> None]
  BY DEF Init
<1>2. IsRecent
  BY <1>1 DEF IsRecent, Recent, OwnPaths, EndsTold, Ordered, State
<1>3. WillServe
  BY <1>1 DEF WillServe
<1> QED BY <1>2, <1>3

----------------------------------------------------------------------------
(* Theorems                                                                *)

\* The invariant of the critical sections of mutex_, for every number of
\* players, devices, ports, paths and faults.
THEOREM Invariant == Spec => []IInv
<1>1. IInv /\ [Next]_vars => IInv'
  <2> SUFFICES ASSUME IInv, [Next]_vars PROVE IInv'
    OBVIOUS
  <2>1. CASE Next
    BY <2>1, StepCore, StepOthers DEF IInv
  <2>2. CASE UNCHANGED vars
    <3>1. Core'
      BY <2>2, CoreUnchanged DEF IInv, vars, obex, strays, bluez
    <3>2. Others'
      BY <2>2 DEF IInv, Others, vars, obex, strays, bluez
    <3> QED BY <3>1, <3>2 DEF IInv
  <2> QED BY <2>1, <2>2
<1> QED BY InitIInv, <1>1, PTL DEF Spec

\* Every variable keeps its type; in particular every session obexd has is at a
\* path it has given, and a count of users is a number.
THEOREM TypeCorrect == Spec => []TypeOK
<1>1. IInv => TypeOK
  BY Parts
<1> QED BY Invariant, <1>1, PTL

\* A recorded session has between one user and as many as its device has
\* registered players: the unsigned count never wraps
\* (unregister_player_locked, register_player, invalidate_player_session).
THEOREM Users == Spec => []UsersBounded
<1>1. IInv => UsersBounded
  BY Parts
<1> QED BY Invariant, <1>1, PTL

\* No second session to the same device and port, whatever obexd loses and
\* however often it restarts, but for sessions that obexd made after
\* create_session had given up (find_session before create_session).
THEOREM OneSession == Spec => []NoSecondSession
<1>1. IInv => NoSecondSession
  BY Parts
<1> QED BY Invariant, <1>1, PTL

\* Until obexd is started again, no session that this client was told it made is
\* lost from its books, whatever the tasks, the fetches, the signals and obexd's
\* own removals do in between, unless obexd does not remove it when asked
\* (sessions_ and its owned flag; remove_session drops the record all the same).
THEOREM OwnRecorded == Spec => []OwnSessionsRecorded
<1>1. IInv /\ OursKept /\ [Next]_vars => OursKept'
  <2> SUFFICES ASSUME IInv, OursKept, [Next]_vars PROVE OursKept'
    OBVIOUS
  <2>1. CASE Next
    BY <2>1, OursStep
  <2>2. CASE UNCHANGED vars
    BY <2>2, KeptUnchanged DEF vars, obex, strays, service
  <2> QED BY <2>1, <2>2
<1>2. IInv /\ OursKept => OwnSessionsRecorded
  <2> SUFFICES ASSUME IInv, OursKept, NEW s \in Paths, spent.starts = 1,
                      live[s] # None, live[s].ours, ~live[s].late, s \notin deaf
               PROVE  \E d \in Devices : sessions[d] # None
                        /\ sessions[d].path = s /\ sessions[d].owned
    BY DEF OwnSessionsRecorded
  <2>1. Own(State, s) /\ Kept(State, used)
    BY DEF OursKept, Own, State
  <2> QED BY <2>1 DEF Kept, State
<1> QED BY Invariant, OursInit, <1>1, <1>2, PTL DEF Spec

\* A registered player that shares its device with no other is served when
\* nothing is under way: whatever obexd closed, and however often it was
\* restarted, some reconnect came after it (register_player,
\* reconnect_players, the handlers of NameOwnerChanged and InterfacesRemoved).
THEOREM SoleServed == Spec => []SoleIsServed
<1>1. IInv /\ IsRecent /\ WillServe /\ [Next]_vars => (IsRecent /\ WillServe)'
  <2> SUFFICES ASSUME IInv, IsRecent, WillServe, [Next]_vars
               PROVE  (IsRecent /\ WillServe)'
    OBVIOUS
  <2>1. CASE Next
    BY <2>1, RecentStep, ServeStep
  <2>2. CASE UNCHANGED vars
    BY <2>2, UnchangedRecent, QuietServe DEF Planned, vars, obex, strays, bluez, service
  <2> QED BY <2>1, <2>2
<1>2. IInv /\ IsRecent /\ WillServe => SoleIsServed
  <2> SUFFICES ASSUME IInv, IsRecent, WillServe, Idle, obexd, ~failed,
                      NEW p \in Players, players[p] # 0,
                      \A q \in Players \ {p} : DeviceOf[q] # DeviceOf[p]
               PROVE  /\ sessions[DeviceOf[p]] # None
                      /\ live[sessions[DeviceOf[p]].path] # None
    BY DEF SoleIsServed
  <2>1. Awaits(p)
    BY DEF WillServe, Sole
  <2>2. \A x : ~Told(x, signals)
    BY DEF Idle, Told
  <2>3. ~Planned(p)
    BY DEF Idle, Planned, Reconnects
  <2>4. sessions[DeviceOf[p]] # None /\ DeviceOf[p] \in Devices
    BY <2>1, <2>2, <2>3, StateIs DEF Awaits, Planned
  <2> QED BY <2>2, <2>4 DEF IsRecent, Recent, EndsTold, State
<1> QED BY Invariant, ServeInit, <1>1, <1>2, PTL DEF Spec

=============================================================================
