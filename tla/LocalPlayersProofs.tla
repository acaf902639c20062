------------------------- MODULE LocalPlayersProofs -------------------------
(***************************************************************************)
(* What LocalPlayers promises, for any number of paths and adapters and    *)
(* whatever its bounds: the invariants of its runs, by induction on the    *)
(* steps.  LostIsWarned says why a registration cannot outlive its adapter *)
(* (its loss is still on the way), Agreement what BlueZ has while a call   *)
(* is under way.                                                           *)
(***************************************************************************)
EXTENDS LocalPlayers, TLAPS

\* A loss that reaches adapter a is among the signals, or among the operations.
Signalled(a, signals) == \E i \in 1..Len(signals) : signals[i] \in {a, All}

Invalidated(a, ops) ==
    \E i \in 1..Len(ops) : ops[i].type = "invalidate" /\ ops[i].adapter \in {a, All}

\* A player BlueZ does not have (any more) is about to be invalidated.
Warned(p) ==
    \/ <<players[p], p>> \in registered
    \/ Signalled(players[p], events)
    \/ Invalidated(players[p], operations)

LostIsWarned == \A p \in Paths : players[p] # None => Warned(p)

\* Before the first loss nothing is invalidated and BlueZ has every adapter.
NothingLost ==
    spent.losses = 0 =>
        /\ owner /\ adapters = Adapters /\ events = <<>>
        /\ \A i \in 1..Len(operations) : operations[i].type # "invalidate"

\* The player that BlueZ still has while it is asked to unregister it.
Leaving ==
    {r \in Player : busy # None /\ busy.type = "unregister"
                      /\ r = <<busy.adapter, busy.path>>}

Agreement == spent.losses = 0 /\ ~late => registered = Known \cup Leaving

IInv == TypeOK /\ LostIsWarned /\ NothingLost /\ Agreement

----------------------------------------------------------------------------
(* Queues                                                                  *)

\* The elements of a queue after one has been taken.
LEMMA Taken ==
    ASSUME NEW T, NEW s \in Seq(T), s # <<>>
    PROVE  /\ Head(s) \in T /\ Tail(s) \in Seq(T)
           /\ Len(s) \in Nat /\ 1 \in 1..Len(s) /\ Head(s) = s[1]
           /\ Len(Tail(s)) = Len(s) - 1
           /\ \A i \in 1..Len(Tail(s)) : i + 1 \in 1..Len(s) /\ Tail(s)[i] = s[i + 1]
           /\ \A i \in 1..Len(s) : i # 1 =>
                i - 1 \in 1..Len(Tail(s)) /\ Tail(s)[i - 1] = s[i]
  OBVIOUS

\* The elements of a queue after one has been put.
LEMMA Put ==
    ASSUME NEW T, NEW s \in Seq(T), NEW e \in T
    PROVE  /\ Append(s, e) \in Seq(T)
           /\ Len(s) \in Nat /\ Len(Append(s, e)) = Len(s) + 1
           /\ \A i \in 1..Len(s) :
                i \in 1..Len(Append(s, e)) /\ Append(s, e)[i] = s[i]
           /\ Len(s) + 1 \in 1..Len(Append(s, e)) /\ Append(s, e)[Len(s) + 1] = e
           /\ \A i \in 1..Len(Append(s, e)) : i \in 1..Len(s) \/ i = Len(s) + 1
  OBVIOUS

----------------------------------------------------------------------------
(* Types                                                                   *)

LEMMA RequestIsRequest ==
    ASSUME NEW r \in Request
    PROVE  r.type \in {"register", "unregister"} /\ r.adapter \in Adapters
           /\ r.path \in Paths /\ r # None
BY PlayersAssumption DEF Request

\* An operation that is no invalidation is a request, and the other way round.
LEMMA OperationKinds ==
    ASSUME NEW r \in Request \cup Invalidation
    PROVE  /\ r.type # "invalidate" => r \in Request
           /\ r.type = "invalidate" => r.adapter \in Adapters \cup {All}
BY DEF Request, Invalidation

LEMMA BeginType ==
    ASSUME TypeOK, NEW r \in Request, Begin(r)
    PROVE  /\ busy' \in Request \cup {None}
           /\ players' \in [Paths -> Adapters \cup {None}]
           /\ busy' # None => players'[busy'.path] = None
BY RequestIsRequest DEF TypeOK, Begin

LEMMA AskType ==
    ASSUME TypeOK, Ask
    PROVE  spent' \in [requests : 0..MaxRequests, losses : 0..MaxLosses,
                       errors : 0..MaxErrors]
BY PlayersAssumption, SMTT(30) DEF TypeOK, Ask

LEMMA AnsweredType ==
    ASSUME TypeOK, busy # None, NEW b \in BOOLEAN, Answered(b)
    PROVE  /\ players' \in [Paths -> Adapters \cup {None}]
           /\ registered' \subseteq adapters \X Paths
BY RequestIsRequest DEF TypeOK, Answered

LEMMA LoseType ==
    ASSUME TypeOK, NEW lost \in SUBSET adapters, NEW e \in Adapters \cup {All},
           Lose(lost, e)
    PROVE  /\ adapters' \subseteq adapters
           /\ registered' \subseteq adapters' \X Paths
           /\ events' \in Seq(Adapters \cup {All})
           /\ spent' \in [requests : 0..MaxRequests, losses : 0..MaxLosses,
                          errors : 0..MaxErrors]
<1>1. events' \in Seq(Adapters \cup {All})
  BY Put DEF TypeOK, Lose
<1>2. spent' \in [requests : 0..MaxRequests, losses : 0..MaxLosses,
                  errors : 0..MaxErrors]
  <2>1. spent.losses + 1 \in 0..MaxLosses
    BY PlayersAssumption DEF TypeOK, Lose
  <2> QED BY <2>1 DEF TypeOK, Lose
<1> QED BY <1>1, <1>2 DEF TypeOK, Lose

\* Every action keeps the variables in their types.
LEMMA TypeStep == ASSUME TypeOK, [Next]_vars PROVE TypeOK'
<1>1. ASSUME NEW r \in Request, PostRequest(r) PROVE TypeOK'
  <2>1. operations' \in Seq(Request \cup Invalidation)
    BY <1>1, Put DEF TypeOK, PostRequest
  <2> QED BY <1>1, <2>1, AskType DEF TypeOK, PostRequest, bluez
<1>2. ASSUME NEW r \in Request, SyncRequest(r) PROVE TypeOK'
  BY <1>2, AskType, BeginType DEF TypeOK, SyncRequest, bluez
<1>3. CASE TakeRequest
  <2>1. Head(operations) \in Request /\ Tail(operations) \in Seq(Request \cup Invalidation)
    BY <1>3, Taken, OperationKinds DEF TypeOK, TakeRequest
  <2> QED BY <1>3, <2>1, BeginType DEF TypeOK, TakeRequest, bluez
<1>4. CASE Answer
  BY <1>4, AnsweredType DEF TypeOK, Answer
<1>5. CASE AnswerLate
  <2>1. spent' \in [requests : 0..MaxRequests, losses : 0..MaxLosses,
                    errors : 0..MaxErrors]
    BY <1>5, PlayersAssumption DEF TypeOK, AnswerLate
  <2> QED BY <1>5, <2>1, AnsweredType DEF TypeOK, AnswerLate
<1>6. CASE CallFails \/ CallLost
  <2>1. CASE CallFails
    <3>1. spent' \in [requests : 0..MaxRequests, losses : 0..MaxLosses,
                      errors : 0..MaxErrors]
      BY <2>1, PlayersAssumption DEF TypeOK, CallFails
    <3>2. late' \in BOOLEAN
      BY <2>1 DEF CallFails
    <3> QED BY <2>1, <3>1, <3>2 DEF TypeOK, CallFails, bluez
  <2>2. CASE CallLost
    BY <2>2 DEF TypeOK, CallLost, bluez
  <2> QED BY <1>6, <2>1, <2>2
<1>7. CASE HandleLoss
  <2>1. Head(events) \in Adapters \cup {All} /\ events' \in Seq(Adapters \cup {All})
    BY <1>7, Taken DEF TypeOK, HandleLoss
  <2>2. operations' \in Seq(Request \cup Invalidation)
    <3> DEFINE e == [type |-> "invalidate", adapter |-> Head(events)]
    <3>1. e \in Request \cup Invalidation
      BY <2>1 DEF Invalidation
    <3> QED BY <1>7, <3>1, Put DEF TypeOK, HandleLoss
  <2> QED BY <1>7, <2>1, <2>2 DEF TypeOK, HandleLoss, bluez
<1>8. CASE Invalidate
  <2>1. operations' \in Seq(Request \cup Invalidation)
    BY <1>8, Taken DEF TypeOK, Invalidate
  <2> QED BY <1>8, <2>1 DEF TypeOK, Invalidate, bluez
<1>9. ASSUME NEW a \in Adapters, RemoveAdapter(a) PROVE TypeOK'
  BY <1>9, LoseType DEF TypeOK, RemoveAdapter
<1>10. ASSUME NEW a \in Adapters, AddAdapter(a) PROVE TypeOK'
  BY <1>10 DEF TypeOK, AddAdapter
<1>11. CASE StopBluez
  <2>1. adapters' = {}
    BY <1>11 DEF StopBluez, Lose
  <2> QED BY <1>11, <2>1, LoseType DEF TypeOK, StopBluez
<1>12. CASE StartBluez
  <2>1. events' \in Seq(Adapters \cup {All})
    BY <1>12, Put DEF TypeOK, StartBluez
  <2> QED BY <1>12, <2>1 DEF TypeOK, StartBluez
<1>13. CASE UNCHANGED vars
  BY <1>13 DEF TypeOK, vars, bluez
<1> QED
  BY <1>1, <1>2, <1>3, <1>4, <1>5, <1>6, <1>7, <1>8, <1>9, <1>10, <1>11, <1>12, <1>13
  DEF Next

----------------------------------------------------------------------------
(* Warnings                                                                *)

\* Taking an element keeps the warnings of the others.
LEMMA TakenWarns ==
    ASSUME NEW T, NEW s \in Seq(T), s # <<>>, NEW a
    PROVE  /\ Signalled(a, s) => Head(s) \in {a, All} \/ Signalled(a, Tail(s))
           /\ Invalidated(a, s) =>
                \/ Head(s).type = "invalidate" /\ Head(s).adapter \in {a, All}
                \/ Invalidated(a, Tail(s))
<1>1. ASSUME NEW i \in 1..Len(s), i # 1
      PROVE  \E j \in 1..Len(Tail(s)) : Tail(s)[j] = s[i]
  <2>1. i - 1 \in 1..Len(Tail(s)) /\ Tail(s)[i - 1] = s[i]
    BY <1>1, Taken
  <2> QED BY <2>1
<1>2. Head(s) = s[1]
  BY Taken
<1>3. Signalled(a, s) => Head(s) \in {a, All} \/ Signalled(a, Tail(s))
  BY <1>1, <1>2 DEF Signalled
<1>4. Invalidated(a, s) =>
        \/ Head(s).type = "invalidate" /\ Head(s).adapter \in {a, All}
        \/ Invalidated(a, Tail(s))
  BY <1>1, <1>2 DEF Invalidated
<1> QED BY <1>3, <1>4

\* Putting an element keeps the warnings that were there.
LEMMA PutWarns ==
    ASSUME NEW T, NEW s \in Seq(T), NEW e \in T, NEW a
    PROVE  /\ Signalled(a, s) \/ e \in {a, All} => Signalled(a, Append(s, e))
           /\ Invalidated(a, s) => Invalidated(a, Append(s, e))
           /\ e.type = "invalidate" /\ e.adapter \in {a, All} =>
                Invalidated(a, Append(s, e))
<1> USE Put DEF Signalled, Invalidated
<1>1. Signalled(a, s) \/ e \in {a, All} => Signalled(a, Append(s, e))
  OBVIOUS
<1>2. Invalidated(a, s) => Invalidated(a, Append(s, e))
  OBVIOUS
<1>3. e.type = "invalidate" /\ e.adapter \in {a, All} => Invalidated(a, Append(s, e))
  OBVIOUS
<1> QED BY <1>1, <1>2, <1>3

\* A request leaves a known player alone or forgets it.
LEMMA BeginKnows ==
    ASSUME TypeOK, NEW r \in Request, Begin(r), NEW p \in Paths
    PROVE  players'[p] \in {players[p], None}
BY RequestIsRequest DEF TypeOK, Begin

\* A registration that ends is one of a player that is not known.
LEMMA AnsweredKnows ==
    ASSUME TypeOK, busy # None, NEW b \in BOOLEAN, Answered(b), NEW p \in Paths,
           players'[p] # None
    PROVE  \/ <<players'[p], p>> \in registered'
           \/ players'[p] = players[p] /\ <<players[p], p>> \notin registered
<1>1. busy \in Request /\ players[busy.path] = None /\ busy.path \in Paths
  BY RequestIsRequest DEF TypeOK
<1>2. CASE busy.type = "register"
  BY <1>1, <1>2 DEF TypeOK, Answered
<1>3. CASE busy.type # "register"
  <2>1. players' = players /\ registered' = registered \ {<<busy.adapter, busy.path>>}
    BY <1>3 DEF Answered
  <2>2. p # busy.path
    BY <1>1, <2>1
  <2>3. <<players[p], p>> # <<busy.adapter, busy.path>>
    BY <2>2
  <2> QED BY <2>1, <2>3
<1> QED BY <1>2, <1>3

LEMMA WarnedStep == ASSUME IInv, [Next]_vars PROVE LostIsWarned'
<1> SUFFICES ASSUME NEW p \in Paths, players'[p] # None
             PROVE  Warned(p)'
  BY DEF LostIsWarned
<1> TypeOK
  BY DEF IInv
<1>0. players'[p] = players[p] => Warned(p)
  BY DEF IInv, LostIsWarned
<1>a. players'[p] \in {players[p], None} => players'[p] = players[p]
  OBVIOUS
<1> USE DEF Warned
<1>1. ASSUME NEW r \in Request, PostRequest(r) PROVE Warned(p)'
  BY <1>0, <1>1, PutWarns DEF TypeOK, PostRequest, bluez
<1>2. ASSUME NEW r \in Request, SyncRequest(r) PROVE Warned(p)'
  BY <1>0, <1>a, <1>2, BeginKnows DEF SyncRequest, bluez
<1>3. CASE TakeRequest
  <2>1. Head(operations) \in Request /\ players'[p] = players[p]
    BY <1>3, <1>a, Taken, OperationKinds, BeginKnows DEF TypeOK, TakeRequest
  <2>2. Invalidated(players[p], operations) => Invalidated(players[p], operations')
    BY <1>3, TakenWarns DEF TypeOK, TakeRequest
  <2> QED BY <1>0, <1>3, <2>1, <2>2 DEF TakeRequest, bluez
<1>4. CASE Answer
  BY <1>0, <1>4, AnsweredKnows DEF Answer
<1>5. CASE AnswerLate
  BY <1>0, <1>5, AnsweredKnows DEF AnswerLate
<1>6. CASE CallFails \/ CallLost
  BY <1>0, <1>6 DEF CallFails, CallLost, bluez
<1>7. CASE HandleLoss
  <2> DEFINE e == [type |-> "invalidate", adapter |-> Head(events)]
  <2>1. e \in Request \cup Invalidation
    BY <1>7, Taken DEF TypeOK, HandleLoss, Invalidation
  <2>2. Signalled(players[p], events) =>
          Head(events) \in {players[p], All} \/ Signalled(players[p], events')
    BY <1>7, TakenWarns DEF TypeOK, HandleLoss
  <2>3. Head(events) \in {players[p], All} => Invalidated(players[p], operations')
    BY <1>7, <2>1, PutWarns DEF TypeOK, HandleLoss
  <2>4. Invalidated(players[p], operations) => Invalidated(players[p], operations')
    BY <1>7, <2>1, PutWarns DEF TypeOK, HandleLoss
  <2> QED BY <1>0, <1>7, <2>2, <2>3, <2>4 DEF HandleLoss, bluez
<1>8. CASE Invalidate
  <2>1. players'[p] = players[p] /\ Head(operations).adapter \notin {players[p], All}
    BY <1>8 DEF TypeOK, Invalidate
  <2>2. Invalidated(players[p], operations) => Invalidated(players[p], operations')
    BY <1>8, <2>1, TakenWarns DEF TypeOK, Invalidate
  <2> QED BY <1>0, <1>8, <2>1, <2>2 DEF Invalidate, bluez
<1>9. ASSUME NEW a \in Adapters, RemoveAdapter(a) PROVE Warned(p)'
  <2>1. players' = players /\ operations' = operations
    BY <1>9 DEF RemoveAdapter
  <2>2. Signalled(players[p], events) \/ players[p] = a =>
          Signalled(players[p], events')
    BY <1>9, PutWarns DEF TypeOK, RemoveAdapter, Lose
  <2>3. players[p] # a /\ <<players[p], p>> \in registered =>
          <<players[p], p>> \in registered'
    BY <1>9 DEF RemoveAdapter, Lose
  <2> QED BY <1>0, <2>1, <2>2, <2>3
<1>10. ASSUME NEW a \in Adapters, AddAdapter(a) PROVE Warned(p)'
  BY <1>0, <1>10 DEF AddAdapter
<1>11. CASE StopBluez
  BY <1>11, PutWarns DEF TypeOK, StopBluez, Lose
<1>12. CASE StartBluez
  BY <1>0, <1>12, PutWarns DEF TypeOK, StartBluez
<1>13. CASE UNCHANGED vars
  BY <1>0, <1>13 DEF vars, bluez
<1> QED
  BY <1>1, <1>2, <1>3, <1>4, <1>5, <1>6, <1>7, <1>8, <1>9, <1>10, <1>11, <1>12, <1>13
  DEF Next, IInv

----------------------------------------------------------------------------
(* Before the first loss                                                   *)

LEMMA NothingLostStep == ASSUME IInv, [Next]_vars PROVE NothingLost'
<1> TypeOK /\ NothingLost
  BY DEF IInv
<1> SUFFICES ASSUME spent'.losses = 0 PROVE NothingLost'
  BY DEF NothingLost
<1>0. spent.losses \in Nat
  BY DEF TypeOK
<1> DEFINE Still == /\ owner' = owner /\ adapters' = adapters /\ events' = events
                    /\ spent'.losses = spent.losses
<1>a. Still /\ operations' = operations => NothingLost'
  BY DEF NothingLost
<1>1. ASSUME NEW r \in Request, PostRequest(r) PROVE NothingLost'
  <2>1. Still
    BY <1>1 DEF PostRequest, Ask, TypeOK, bluez
  <2>2. \A i \in 1..Len(operations') :
          operations'[i] = r \/ (i \in 1..Len(operations) /\ operations'[i] = operations[i])
    BY <1>1, Put DEF PostRequest, TypeOK
  <2>3. r.type # "invalidate"
    BY RequestIsRequest
  <2> QED BY <2>1, <2>2, <2>3 DEF NothingLost
<1>2. ASSUME NEW r \in Request, SyncRequest(r) PROVE NothingLost'
  <2>1. Still
    BY <1>2 DEF SyncRequest, Ask, TypeOK, bluez
  <2> QED BY <1>a, <1>2, <2>1 DEF SyncRequest
<1>3. CASE TakeRequest
  <2>1. Still
    BY <1>3 DEF TakeRequest, bluez
  <2>2. \A i \in 1..Len(operations') :
          i + 1 \in 1..Len(operations) /\ operations'[i] = operations[i + 1]
    BY <1>3, Taken DEF TakeRequest, TypeOK
  <2> QED BY <2>1, <2>2 DEF NothingLost
<1>4. CASE Answer
  BY <1>a, <1>4 DEF Answer
<1>5. CASE AnswerLate
  <2>1. Still
    BY <1>5 DEF AnswerLate, TypeOK
  <2> QED BY <1>a, <1>5, <2>1 DEF AnswerLate
<1>6. CASE CallFails \/ CallLost
  <2>1. Still /\ operations' = operations
    BY <1>6 DEF CallFails, CallLost, TypeOK, bluez
  <2> QED BY <1>a, <2>1
<1>7. CASE HandleLoss
  BY <1>7 DEF HandleLoss, NothingLost
<1>8. CASE Invalidate
  <2>1. 1 \in 1..Len(operations) /\ operations[1].type = "invalidate"
    BY <1>8, Taken DEF Invalidate, TypeOK
  <2>2. spent.losses # 0
    BY <2>1 DEF NothingLost
  <2> QED BY <1>8, <2>2 DEF Invalidate
<1>9. ASSUME NEW a \in Adapters, RemoveAdapter(a) PROVE NothingLost'
  <2>1. spent'.losses = spent.losses + 1
    BY <1>9 DEF RemoveAdapter, Lose, TypeOK
  <2> QED BY <1>0, <2>1
<1>10. ASSUME NEW a \in Adapters, AddAdapter(a) PROVE NothingLost'
  BY <1>10 DEF AddAdapter, NothingLost
<1>11. CASE StopBluez
  <2>1. spent'.losses = spent.losses + 1
    BY <1>11 DEF StopBluez, Lose, TypeOK
  <2> QED BY <1>0, <2>1
<1>12. CASE StartBluez
  BY <1>12 DEF StartBluez, NothingLost
<1>13. CASE UNCHANGED vars
  BY <1>a, <1>13 DEF vars, bluez
<1> QED
  BY <1>1, <1>2, <1>3, <1>4, <1>5, <1>6, <1>7, <1>8, <1>9, <1>10, <1>11, <1>12, <1>13
  DEF Next

----------------------------------------------------------------------------
(* Agreement                                                               *)

\* The pairs of Known are the players that are known.
LEMMA KnownIs ==
    ASSUME TypeOK, NEW a, NEW p
    PROVE  <<a, p>> \in Known <=> p \in Paths /\ players[p] = a /\ a # None
BY DEF Known

\* A request moves its player from Known to Leaving, or does nothing.
LEMMA BeginAgrees ==
    ASSUME TypeOK, NEW r \in Request, Begin(r)
    PROVE  Known' \cup Leaving' = Known \cup Leaving
<1>1. r.path \in Paths /\ r.adapter \in Adapters /\ r # None /\ r.adapter # None
  BY RequestIsRequest, PlayersAssumption
<1>2. Leaving = {} 
  BY DEF Begin, Leaving
<1>3. CASE ~Accepts(r)
  BY <1>3 DEF Begin, Known, Leaving
<1>4. CASE Accepts(r) /\ r.type = "register"
  <2>1. players' = players
    BY <1>1, <1>4 DEF Begin, Accepts, TypeOK
  <2>2. Leaving' = {}
    BY <1>4 DEF Begin, Leaving
  <2> QED BY <1>2, <2>1, <2>2 DEF Known
<1>5. CASE Accepts(r) /\ r.type = "unregister"
  <2>1. /\ players[r.path] = r.adapter /\ players'[r.path] = None
        /\ \A p \in Paths : p # r.path => players'[p] = players[p]
    BY <1>1, <1>5 DEF Begin, Accepts, TypeOK
  <2>2. Leaving' = {<<r.adapter, r.path>>}
    BY <1>1, <1>5 DEF Begin, Leaving, Player
  <2>3. Known = Known' \cup {<<r.adapter, r.path>>}
    BY <1>1, <2>1 DEF Known
  <2> QED BY <1>2, <2>2, <2>3
<1> QED BY <1>3, <1>4, <1>5, RequestIsRequest

LEMMA AgreementStep == ASSUME IInv, [Next]_vars PROVE Agreement'
<1> TypeOK /\ NothingLost /\ Agreement
  BY DEF IInv
<1> SUFFICES ASSUME spent'.losses = 0, ~late' PROVE Agreement'
  BY DEF Agreement
<1>0. spent.losses \in Nat
  BY DEF TypeOK
<1> DEFINE Before == spent.losses = 0 /\ ~late
<1>a. Before => registered = Known \cup Leaving
  BY DEF Agreement
<1>1. ASSUME NEW r \in Request, PostRequest(r) PROVE Agreement'
  <2>1. Before
    BY <1>1 DEF PostRequest, Ask, TypeOK
  <2> QED BY <1>a, <1>1, <2>1 DEF PostRequest, bluez, Agreement, Known, Leaving
<1>2. ASSUME NEW r \in Request, SyncRequest(r) PROVE Agreement'
  <2>1. Before
    BY <1>2 DEF SyncRequest, Ask, TypeOK
  <2>2. Known' \cup Leaving' = Known \cup Leaving
    BY <1>2, BeginAgrees DEF SyncRequest
  <2> QED BY <1>a, <1>2, <2>1, <2>2 DEF SyncRequest, bluez, Agreement
<1>3. CASE TakeRequest
  <2>1. Head(operations) \in Request
    BY <1>3, Taken, OperationKinds DEF TypeOK, TakeRequest
  <2>2. Known' \cup Leaving' = Known \cup Leaving
    BY <1>3, <2>1, BeginAgrees DEF TakeRequest
  <2> QED BY <1>a, <1>3, <2>2 DEF TakeRequest, bluez, Agreement
<1>4. CASE Answer
  <2>1. /\ busy \in Request /\ busy.path \in Paths /\ busy.adapter \in Adapters
        /\ busy.adapter # None /\ players[busy.path] = None
    BY <1>4, RequestIsRequest, PlayersAssumption DEF Answer, TypeOK
  <2>2. registered = Known \cup Leaving /\ adapters = Adapters /\ Leaving' = {}
    BY <1>a, <1>4 DEF Answer, NothingLost, Leaving
  <2>3. <<busy.adapter, busy.path>> \notin Known
    BY <2>1, KnownIs
  <2>4. CASE busy.type = "register"
    <3>1. Leaving = {}
      BY <2>4 DEF Leaving
    <3>2. /\ registered' = registered \cup {<<busy.adapter, busy.path>>}
          /\ players' = [players EXCEPT ![busy.path] = busy.adapter]
      BY <1>4, <2>1, <2>2, <2>3, <2>4, <3>1 DEF Answer, Answered
    <3>3. Known' = Known \cup {<<busy.adapter, busy.path>>}
      BY <2>1, <3>2 DEF Known, TypeOK
    <3> QED BY <2>2, <3>1, <3>2, <3>3 DEF Agreement
  <2>5. CASE busy.type = "unregister"
    <3>1. Leaving = {<<busy.adapter, busy.path>>}
      BY <1>4, <2>1, <2>5 DEF Leaving, Player, Answer
    <3>2. registered' = registered \ {<<busy.adapter, busy.path>>} /\ Known' = Known
      BY <1>4, <2>5 DEF Answer, Answered, Known
    <3> QED BY <2>2, <2>3, <3>1, <3>2 DEF Agreement
  <2> QED BY <2>1, <2>4, <2>5, RequestIsRequest
<1>5. CASE AnswerLate
  BY <1>5 DEF AnswerLate
<1>6. CASE CallFails \/ CallLost
  <2>1. CASE CallFails
    <3>1. Before /\ busy # None /\ busy.type # "unregister"
      BY <2>1 DEF CallFails, TypeOK
    <3>2. Leaving = {} /\ Leaving' = {}
      BY <2>1, <3>1 DEF CallFails, Leaving
    <3> QED BY <1>a, <2>1, <3>1, <3>2 DEF CallFails, bluez, Agreement, Known
  <2>2. CASE CallLost
    BY <1>0, <2>2 DEF CallLost
  <2> QED BY <1>6, <2>1, <2>2
<1>7. CASE HandleLoss
  BY <1>a, <1>7 DEF HandleLoss, bluez, Agreement, Known, Leaving
<1>8. CASE Invalidate
  <2>1. 1 \in 1..Len(operations) /\ operations[1].type = "invalidate"
    BY <1>8, Taken DEF Invalidate, TypeOK
  <2>2. spent.losses # 0
    BY <2>1 DEF NothingLost
  <2> QED BY <1>8, <2>2 DEF Invalidate
<1>9. ASSUME NEW a \in Adapters, RemoveAdapter(a) PROVE Agreement'
  <2>1. spent'.losses = spent.losses + 1
    BY <1>9 DEF RemoveAdapter, Lose, TypeOK
  <2> QED BY <1>0, <2>1
<1>10. ASSUME NEW a \in Adapters, AddAdapter(a) PROVE Agreement'
  BY <1>10 DEF AddAdapter, NothingLost
<1>11. CASE StopBluez
  <2>1. spent'.losses = spent.losses + 1
    BY <1>11 DEF StopBluez, Lose, TypeOK
  <2> QED BY <1>0, <2>1
<1>12. CASE StartBluez
  BY <1>12 DEF StartBluez, NothingLost
<1>13. CASE UNCHANGED vars
  BY <1>a, <1>13 DEF vars, bluez, Agreement, Known, Leaving
<1> QED
  BY <1>1, <1>2, <1>3, <1>4, <1>5, <1>6, <1>7, <1>8, <1>9, <1>10, <1>11, <1>12, <1>13
  DEF Next

----------------------------------------------------------------------------
(* Theorems                                                                *)

LEMMA Start == Init => IInv
<1> SUFFICES ASSUME Init PROVE IInv
  OBVIOUS
<1>1. TypeOK
  <2>1. /\ players \in [Paths -> Adapters \cup {None}]
        /\ spent \in [requests : 0..MaxRequests, losses : 0..MaxLosses,
                     errors : 0..MaxErrors]
    BY PlayersAssumption DEF Init
  <2>2. events \in Seq(Adapters \cup {All}) /\ operations \in Seq(Request \cup Invalidation)
    BY DEF Init
  <2> QED BY <2>1, <2>2 DEF Init, TypeOK
<1>2. LostIsWarned /\ NothingLost
  BY DEF Init, LostIsWarned, NothingLost
<1>3. Agreement
  BY DEF Init, Agreement, Known, Leaving
<1> QED BY <1>1, <1>2, <1>3 DEF IInv

\* The invariant of players_, players_mutex_ and the invalidations, for every
\* number of players, adapters and losses.
THEOREM Invariant == Spec => []IInv
<1>1. IInv /\ [Next]_vars => IInv'
  BY TypeStep, WarnedStep, NothingLostStep, AgreementStep DEF IInv
<1> QED BY Start, <1>1, PTL DEF Spec

\* Every variable keeps its type; in particular a player whose registration or
\* unregistration is under way is not in players_.
THEOREM TypeCorrect == Spec => []TypeOK
<1>1. IInv => TypeOK
  BY DEF IInv
<1> QED BY Invariant, <1>1, PTL

\* No registration outlives its BlueZ or its adapter: invalidate_registrations
\* forgets every player whose adapter or owner was lost.
THEOREM NoneOutlives == Spec => []KnownIsRegistered
<1>1. IInv => KnownIsRegistered
  BY DEF IInv, LostIsWarned, Warned, Signalled, Invalidated, KnownIsRegistered, Quiet,
         Known
<1> QED BY Invariant, <1>1, PTL

\* While nothing is lost, no answer is late and no unregistration fails,
\* players_ is what BlueZ has whenever no call holds players_mutex_.
THEOREM Agrees == Spec => []AgreeWhenStable
<1>1. IInv => AgreeWhenStable
  BY DEF IInv, Agreement, Leaving, AgreeWhenStable
<1> QED BY Invariant, <1>1, PTL

=============================================================================
