------------------------ MODULE ClientLifecycleProofs ------------------------
(***************************************************************************)
(* What ClientLifecycle promises, for any number of clients, threads,      *)
(* calls and closes.  The argument follows the shared_ptr: as long as      *)
(* somebody has one, the context is live (Referenced), so the last one to  *)
(* drop it can stop the queues; a queue that was joined stays empty        *)
(* (Joined); a call whose answer is due is at its client (DueIsLocated),   *)
(* in one place (InOnePlace).  Together they make every step a step of     *)
(* ClientContract.                                                         *)
(***************************************************************************)
EXTENDS ClientLifecycle, Functions, FiniteSetTheorems, TLAPS

\* Whoever has a shared_ptr to a context has a live one, whose handle a caller
\* was given (but for the context being created).
Referenced ==
    /\ \A c \in clients : phase[c] = "live"
    /\ \A a \in Actors, c \in Clients :
         Holds(a, c) => phase[c] = "live" /\ c \in handles
    /\ \A r \in Range(reaperQueue) :
         r.ctx # None => phase[r.ctx] = "live" /\ r.ctx \in handles

\* The connections worker has the only reference to the context it creates.
Creating ==
    /\ \A a \in Actors \ {Connections} : job[a].at # "created"
    /\ job[Connections].at \in {"idle", "created", "destroying"}
    /\ job[Connections].at = "created" =>
         job[Connections].ctx \in clients \ handles
    /\ \A c \in handles : phase[c] # "absent"

\* A call that is about to be dispatched has its client; a client that was
\* retired is handed over with the port of its close, if any.
Carrying ==
    \A a \in Actors :
        /\ job[a].at = "calling" => job[a].ctx \in Clients /\ job[a].id \in Calls
        /\ job[a].at = "retired" => job[a].id \in Closes \cup {None}
        /\ a = Reaper => job[a].id \notin Calls

\* A queue whose worker was joined stays empty.
Joined ==
    \A c \in Clients :
        /\ phase[c] \in {"stopCover", "gone"} => Drained(c, "operations")
        /\ phase[c] = "gone" => Drained(c, "cover")

\* A call whose answer is due is with its client: on the thread that makes it,
\* in its queue, or running.
Located(k, c) ==
    \/ \E t \in Threads : job[t].at = "calling" /\ job[t].ctx = c /\ job[t].id = k
    \/ k \in Range(queue[c][QueueOf(k)])
    \/ running[c][QueueOf(k)] = k

DueIsLocated ==
    \A k \in Calls : target[k] # None /\ answers[k] = 0 => Located(k, target[k])

Calling(t, k) == job[t].at = "calling" /\ job[t].id = k

OnceIn(s, k) == \A i, j \in DOMAIN s : s[i] = k /\ s[j] = k => i = j

\* A call is with its client only, in one place, and nowhere once answered.
Once(k) ==
    /\ answers[k] \in {0, 1} /\ (target[k] = None => answers[k] = 0)
    /\ \A t \in Threads : Calling(t, k) =>
         /\ job[t].ctx = target[k] /\ answers[k] = 0
         /\ \A u \in Threads : Calling(u, k) => u = t
         /\ \A c \in Clients, q \in Queues :
              running[c][q] # k /\ k \notin Range(queue[c][q])
    /\ \A c \in Clients, q \in Queues :
         /\ running[c][q] = k =>
              /\ c = target[k] /\ q = QueueOf(k) /\ answers[k] = 0
              /\ k \notin Range(queue[c][q])
         /\ k \in Range(queue[c][q]) => c = target[k] /\ q = QueueOf(k) /\ answers[k] = 0
         /\ OnceIn(queue[c][q], k)

InOnePlace == \A k \in Calls : Once(k)

IInv == TypeOK /\ Referenced /\ Creating /\ Carrying /\ Joined /\ DueIsLocated
          /\ InOnePlace

----------------------------------------------------------------------------
(* Helpers                                                                 *)

Task == [ctx : Clients \cup {None}, id : Closes \cup {None}]

LEMMA Names ==
    /\ Reaper \in Actors /\ Connections \in Actors /\ Reaper # Connections
    /\ Reaper \notin Threads /\ Connections \notin Threads /\ Threads \subseteq Actors
    /\ None \notin Clients /\ None \notin Ports /\ None \notin Ops
    /\ Removed \in Ops /\ CoverWork \in Ops /\ Calls \subseteq Ops
    /\ Removed \notin Calls /\ CoverWork \notin Calls /\ CoverCalls \subseteq Calls
    /\ Queues = {"operations", "cover"}
BY ClientAssumption DEF Actors, Ports, Ops, Queues

LEMMA InRange == ASSUME NEW T, NEW s \in Seq(T) PROVE Range(s) \subseteq T
BY DEF Range

\* What is left after an element has been taken.
LEMMA Taken ==
    ASSUME NEW T, NEW s \in Seq(T), s # <<>>
    PROVE  /\ Head(s) \in T /\ Head(s) \in Range(s) /\ Tail(s) \in Seq(T)
           /\ Range(Tail(s)) \subseteq Range(s)
           /\ Range(s) \subseteq Range(Tail(s)) \cup {Head(s)}
<1>1. Head(s) \in T /\ Tail(s) \in Seq(T)
  OBVIOUS
<1>2. Head(s) \in Range(s)
  BY DEF Range
<1>3. ASSUME NEW x \in Range(Tail(s)) PROVE x \in Range(s)
  <2>1. PICK i \in 1..Len(Tail(s)) : x = Tail(s)[i]
    BY <1>1, <1>3 DEF Range
  <2>2. i + 1 \in 1..Len(s) /\ s[i + 1] = x
    BY <2>1
  <2> QED BY <2>2 DEF Range
<1>4. ASSUME NEW x \in Range(s), x # Head(s) PROVE x \in Range(Tail(s))
  <2>1. PICK i \in 1..Len(s) : x = s[i]
    BY <1>4 DEF Range
  <2>2. i - 1 \in 1..Len(Tail(s)) /\ Tail(s)[i - 1] = x
    BY <1>4, <2>1
  <2>3. DOMAIN Tail(s) = 1..Len(Tail(s))
    BY <1>1
  <2> QED BY <2>2, <2>3 DEF Range
<1> QED BY <1>1, <1>2, <1>3, <1>4

LEMMA Put ==
    ASSUME NEW T, NEW s \in Seq(T), NEW e \in T
    PROVE  Append(s, e) \in Seq(T) /\ Range(Append(s, e)) = Range(s) \cup {e}
<1>1. Append(s, e) \in Seq(T) /\ Len(Append(s, e)) = Len(s) + 1 /\ Len(s) \in Nat
  OBVIOUS
<1>2. \A i \in 1..Len(s) : Append(s, e)[i] = s[i]
  OBVIOUS
<1>3. Append(s, e)[Len(s) + 1] = e
  OBVIOUS
<1>4. 1..Len(Append(s, e)) = 1..Len(s) \cup {Len(s) + 1}
  BY <1>1
<1> QED BY <1>1, <1>2, <1>3, <1>4 DEF Range

LEMMA QueueType ==
    ASSUME TypeOK, NEW c \in Clients, NEW q \in Queues
    PROVE  queue[c][q] \in Seq(Ops) /\ running[c][q] \in Ops \cup {None}
BY DEF TypeOK

LEMMA JobType ==
    ASSUME TypeOK, NEW a \in Actors
    PROVE  /\ job[a].at \in Stages /\ job[a].ctx \in Clients \cup {None}
           /\ job[a].id \in Ports \cup {None}
BY DEF TypeOK, Jobs

LEMMA TaskType ==
    ASSUME TypeOK
    PROVE  /\ reaperQueue \in Seq(Task)
           /\ \A r \in Range(reaperQueue) :
                r.ctx \in Clients \cup {None} /\ r.id \in Closes \cup {None}
<1>1. reaperQueue \in Seq(Task)
  BY DEF TypeOK, Task
<1>2. Range(reaperQueue) \subseteq Task
  BY <1>1, InRange
<1> QED BY <1>1, <1>2 DEF Task

\* post adds the operation to its queue, and to no other, unless it stops.
LEMMA PostedIs ==
    ASSUME TypeOK, NEW c \in Clients, NEW q \in Queues, NEW op \in Ops
    PROVE  /\ Posted(c, q, op) \in [Clients -> [Queues -> Seq(Ops)]]
           /\ \A d \in Clients, p \in Queues :
                /\ Range(queue[d][p]) \subseteq Range(Posted(c, q, op)[d][p])
                /\ d # c \/ p # q \/ Stopping(c, q) =>
                     Posted(c, q, op)[d][p] = queue[d][p]
           /\ ~Stopping(c, q) => /\ op \in Range(Posted(c, q, op)[c][q])
                                /\ Posted(c, q, op)[c][q] = Append(queue[c][q], op)
<1>1. CASE Stopping(c, q)
  BY <1>1 DEF Posted, TypeOK
<1>2. CASE ~Stopping(c, q)
  <2> DEFINE s == Append(queue[c][q], op)
             f == [queue EXCEPT ![c][q] = s]
  <2>1. Posted(c, q, op) = f
    BY <1>2 DEF Posted
  <2>2. s \in Seq(Ops) /\ Range(s) = Range(queue[c][q]) \cup {op}
    BY Put, QueueType
  <2>5. s = Append(queue[c][q], op)
    OBVIOUS
  <2> HIDE DEF s
  <2>3. f \in [Clients -> [Queues -> Seq(Ops)]]
    BY <2>2 DEF TypeOK
  <2>4. f[c][q] = s /\ \A d \in Clients, p \in Queues : d # c \/ p # q => f[d][p] = queue[d][p]
    BY DEF TypeOK
  <2> QED BY <1>2, <2>1, <2>2, <2>3, <2>4, <2>5
<1> QED BY <1>1, <1>2

\* shared_ptr::reset ends with the next job, or as the destroyer.
LEMMA DropIs ==
    ASSUME TypeOK, NEW a \in Actors, NEW c \in Clients \cup {None}, NEW pending,
           NEW next \in Jobs, Drop(a, c, pending, next)
    PROVE  /\ job' \in [Actors -> Jobs] /\ phase' \in [Clients -> Phases]
           /\ \A b \in Actors \ {a} : job'[b] = job[b]
           /\ \/ job'[a] = next /\ phase' = phase
              \/ /\ c \in Clients /\ ~OtherReference(a, c, pending)
                 /\ job'[a].at = "destroying" /\ job'[a].ctx = c /\ job'[a].id = next.id
                 /\ phase'[c] = "stopOperations"
                 /\ \A d \in Clients \ {c} : phase'[d] = phase[d]
<1>1. CASE c = None \/ OtherReference(a, c, pending)
  BY <1>1 DEF Drop, TypeOK
<1>2. CASE ~(c = None \/ OtherReference(a, c, pending))
  <2> DEFINE j == [next EXCEPT !.at = "destroying", !.ctx = c]
  <2>1. j \in Jobs /\ j.at = "destroying" /\ j.ctx = c /\ j.id = next.id
    BY <1>2 DEF Jobs, Stages
  <2>2. job' = [job EXCEPT ![a] = j] /\ phase' = [phase EXCEPT ![c] = "stopOperations"]
    BY <1>2 DEF Drop
  <2> HIDE DEF j
  <2> QED BY <1>2, <2>1, <2>2 DEF TypeOK, Phases
<1> QED BY <1>1, <1>2

----------------------------------------------------------------------------
(* Types                                                                   *)

LEMMA TypeStep ==
    ASSUME TypeOK, Creating, Carrying, [Next]_vars PROVE TypeOK'
<1> USE DEF TypeOK
<1>1. ASSUME NEW c \in Clients, CreateClient(c) PROVE TypeOK'
  <2>1. [at |-> "created", ctx |-> c, id |-> None] \in Jobs
    BY DEF Jobs, Stages
  <2> QED BY <1>1, <2>1 DEF CreateClient, Phases
<1>2. CASE CreateDelivered
  <2>1. IdleJob \in Jobs
    BY DEF IdleJob, Jobs, Stages
  <2> QED BY <1>2, <2>1 DEF CreateDelivered, Creating
<1>3. CASE CreateRefused
  <2>1. job' \in [Actors -> Jobs]
    <3>1. [job[Connections] EXCEPT !.at = "destroying"] \in Jobs
      BY Names, ZenonT(60) DEF Jobs, Stages
    <3> QED BY <1>3, <3>1 DEF CreateRefused
  <2> QED BY <1>3, <2>1 DEF CreateRefused, Phases
<1>4. ASSUME NEW t \in Threads, NEW c \in Clients, NEW k \in Calls, StartCall(t, k, c)
      PROVE  TypeOK'
  <2>1. [at |-> "calling", ctx |-> c, id |-> k] \in Jobs
    BY DEF Jobs, Stages, Ports
  <2> QED BY <1>4, <2>1 DEF StartCall
<1>5. ASSUME NEW t \in Threads, NEW c \in Clients, NEW k \in Calls, RejectCall(t, k, c)
      PROVE  TypeOK'
  <2>1. answers' \in [Ports -> Nat] /\ target' \in [Ports -> Clients \cup {None}]
    BY <1>5 DEF RejectCall, Ports
  <2> QED BY <1>5, <2>1 DEF RejectCall
<1>6. ASSUME NEW t \in Threads, NEW c \in Clients, NEW d \in Closes, DestroyAsync(t, d, c)
      PROVE  TypeOK'
  <2>1. [at |-> "retired", ctx |-> IF c \in clients THEN c ELSE None, id |-> d] \in Jobs
    BY DEF Jobs, Stages, Ports
  <2> QED BY <1>6, <2>1 DEF DestroyAsync, Retire
<1>7. ASSUME NEW t \in Threads, NEW c \in Clients, StartSync(t, c) PROVE TypeOK'
  <2>1. [at |-> "sync", ctx |-> c, id |-> None] \in Jobs
    BY DEF Jobs, Stages
  <2> QED BY <1>7, <2>1 DEF StartSync
<1>8. ASSUME NEW t \in Threads, NEW c \in Clients, Destroy(t, c) PROVE TypeOK'
  <2>1. [at |-> "retired", ctx |-> IF c \in clients THEN c ELSE None, id |-> None] \in Jobs
    BY DEF Jobs, Stages
  <2> QED BY <1>8, <2>1 DEF Destroy, Retire
<1>9. ASSUME NEW t \in Threads, Dispatch(t) PROVE TypeOK'
  <2>1. job[t].ctx \in Clients /\ job[t].id \in Ops /\ QueueOf(job[t].id) \in Queues
    BY <1>9, Names DEF Dispatch, Carrying, QueueOf
  <2>2. queue' \in [Clients -> [Queues -> Seq(Ops)]]
    BY <1>9, <2>1, PostedIs DEF Dispatch
  <2>3. job' \in [Actors -> Jobs]
    <3>1. job[t] \in Jobs
      BY Names
    <3>2. [job[t] EXCEPT !.at = "returning"] \in Jobs
      BY <3>1 DEF Jobs, Stages
    <3> QED BY <1>9, <3>2 DEF Dispatch
  <2> QED BY <1>9, <2>2, <2>3 DEF Dispatch
<1>10. ASSUME NEW t \in Threads, Return(t) PROVE TypeOK'
  <2>1. IdleJob \in Jobs /\ t \in Actors /\ job[t].ctx \in Clients \cup {None}
    BY Names, JobType DEF IdleJob, Jobs, Stages
  <2>2. job' \in [Actors -> Jobs] /\ phase' \in [Clients -> Phases]
    BY <1>10, <2>1, DropIs DEF Return
  <2> QED BY <1>10, <2>2 DEF Return
<1>11. ASSUME NEW t \in Threads, PostToReaper(t) PROVE TypeOK'
  <2> DEFINE r == [ctx |-> job[t].ctx, id |-> job[t].id]
  <2>1. r \in Task
    BY <1>11, Names, JobType DEF PostToReaper, Carrying, Task
  <2>2. reaperQueue' \in Seq(Task)
    BY <1>11, <2>1, Put DEF PostToReaper, Task
  <2>3. IdleJob \in Jobs
    BY DEF IdleJob, Jobs, Stages
  <2> QED BY <1>11, <2>2, <2>3 DEF PostToReaper, Task
<1>12. CASE ReaperReset
  <2>1. /\ reaperQueue # <<>> /\ Head(reaperQueue) \in Task
        /\ reaperQueue' \in Seq(Task)
    BY <1>12, Taken DEF ReaperReset, Task
  <2> DEFINE next == [at |-> "answering", ctx |-> None, id |-> Head(reaperQueue).id]
  <2>2. next \in Jobs /\ Head(reaperQueue).ctx \in Clients \cup {None}
    BY <2>1 DEF Task, Jobs, Stages, Ports
  <2>3. Drop(Reaper, Head(reaperQueue).ctx, Tail(reaperQueue), next)
    BY <1>12 DEF ReaperReset
  <2> HIDE DEF next
  <2>4. job' \in [Actors -> Jobs] /\ phase' \in [Clients -> Phases]
    BY <2>2, <2>3, Names, DropIs
  <2> QED BY <1>12, <2>1, <2>4 DEF ReaperReset, Task
<1>13. CASE ReaperAnswer
  <2>1. IdleJob \in Jobs
    BY DEF IdleJob, Jobs, Stages
  <2>2. answers' \in [Ports -> Nat]
    BY <1>13, Names, JobType DEF ReaperAnswer
  <2> QED BY <1>13, <2>1, <2>2 DEF ReaperAnswer
<1>14. ASSUME NEW c \in Clients, OperationsJoined(c) PROVE TypeOK'
  BY <1>14 DEF OperationsJoined, Phases
<1>15. ASSUME NEW c \in Clients, CoverJoined(c) PROVE TypeOK'
  <2>1. IdleJob \in Jobs
    BY DEF IdleJob, Jobs, Stages
  <2>2. \A a \in Actors : [job[a] EXCEPT !.at = "answering", !.ctx = None] \in Jobs
    BY DEF Jobs, Stages
  <2>3. job' \in [Actors -> Jobs]
    BY <1>15, <2>1, <2>2 DEF CoverJoined
  <2> QED BY <1>15, <2>3 DEF CoverJoined, Phases
<1>16. ASSUME NEW c \in Clients, NEW q \in Queues, Take(c, q) PROVE TypeOK'
  <2>1. Head(queue[c][q]) \in Ops /\ Tail(queue[c][q]) \in Seq(Ops)
    BY <1>16, QueueType, Taken DEF Take
  <2>2. queue' \in [Clients -> [Queues -> Seq(Ops)]]
    BY <1>16, <2>1 DEF Take
  <2>3. running' \in [Clients -> [Queues -> Ops \cup {None}]]
    BY <1>16, <2>1 DEF Take
  <2> QED BY <1>16, <2>2, <2>3 DEF Take
<1>17. ASSUME NEW c \in Clients, NEW q \in Queues, FinishCall(c, q) PROVE TypeOK'
  <2>1. running' \in [Clients -> [Queues -> Ops \cup {None}]]
    BY <1>17 DEF FinishCall
  <2>2. answers' \in [Ports -> Nat]
    <3>1. running[c][q] \in Ports
      BY <1>17 DEF FinishCall, Ports
    <3> QED BY <1>17, <3>1 DEF FinishCall
  <2> QED BY <1>17, <2>1, <2>2 DEF FinishCall
<1>18. ASSUME NEW c \in Clients, FinishRemoved(c) PROVE TypeOK'
  <2>1. running' \in [Clients -> [Queues -> Ops \cup {None}]]
    BY <1>18 DEF FinishRemoved
  <2>2. queue' \in [Clients -> [Queues -> Seq(Ops)]]
    BY <1>18, Names, PostedIs DEF FinishRemoved
  <2> QED BY <1>18, <2>1, <2>2 DEF FinishRemoved
<1>19. ASSUME NEW c \in Clients, FinishCoverWork(c) PROVE TypeOK'
  <2>1. running' \in [Clients -> [Queues -> Ops \cup {None}]]
    BY <1>19 DEF FinishCoverWork
  <2> QED BY <1>19, <2>1 DEF FinishCoverWork
<1>20. ASSUME NEW c \in Clients, NEW q \in Queues, NEW op \in Ops, Signal(c, q, op)
       PROVE  TypeOK'
  <2>1. queue' \in [Clients -> [Queues -> Seq(Ops)]]
    BY <1>20, PostedIs DEF Signal
  <2>2. signals' \in 0..MaxSignals
    BY <1>20, ClientAssumption DEF Signal
  <2> QED BY <1>20, <2>1, <2>2 DEF Signal
<1>21. CASE UNCHANGED vars
  BY <1>21 DEF vars
<1> QED
  BY <1>1, <1>2, <1>3, <1>4, <1>5, <1>6, <1>7, <1>8, <1>9, <1>10, <1>11, <1>12, <1>13,
     <1>14, <1>15, <1>16, <1>17, <1>18, <1>19, <1>20, <1>21
  DEF Next, Entry, Progress, Work, Quiescent

----------------------------------------------------------------------------
(* References                                                              *)

\* Dropping a reference ends a context only when nobody else has one.
LEMMA DropReferenced ==
    ASSUME TypeOK, Referenced, NEW a \in Actors, NEW c \in Clients \cup {None},
           NEW next \in Jobs, next.at \notin Holding,
           NEW pending, Drop(a, c, pending, next),
           Range(pending) \subseteq Range(reaperQueue), reaperQueue' = pending,
           clients' = clients, handles' = handles
    PROVE  Referenced'
<1>1. \A b \in Actors, d \in Clients : Holds(b, d)' => b # a /\ Holds(b, d)
  BY DropIs DEF Holds, Holding
<1>2. CASE phase' = phase
  BY <1>1, <1>2 DEF Referenced
<1>3. CASE /\ c \in Clients /\ ~OtherReference(a, c, pending)
           /\ \A d \in Clients \ {c} : phase'[d] = phase[d]
  <2>1. c \notin clients /\ \A b \in Actors \ {a} : ~Holds(b, c)
    BY <1>3 DEF OtherReference
  <2>2. \A r \in Range(pending) : r.ctx # c
    BY <1>3 DEF OtherReference, Range
  <2>3. \A r \in Range(pending) : r.ctx # None => r.ctx \in Clients
    BY TaskType
  <2>4. \A d \in clients' : phase'[d] = "live"
    BY <1>3, <2>1 DEF Referenced, TypeOK
  <2>5. \A b \in Actors, d \in Clients : Holds(b, d)' => phase'[d] = "live" /\ d \in handles'
    BY <1>1, <1>3, <2>1 DEF Referenced
  <2>6. \A r \in Range(reaperQueue') :
          r.ctx # None => phase'[r.ctx] = "live" /\ r.ctx \in handles'
    BY <1>3, <2>2, <2>3 DEF Referenced
  <2> QED BY <2>4, <2>5, <2>6 DEF Referenced
<1> QED BY <1>2, <1>3, DropIs

LEMMA ReferencedStep ==
    ASSUME TypeOK, Referenced, Creating, Carrying, [Next]_vars PROVE Referenced'
<1>0. Threads \subseteq Actors /\ Reaper \in Actors /\ Connections \in Actors
  BY Names
<1>a. ASSUME clients' \subseteq clients, handles' = handles, reaperQueue' = reaperQueue,
             phase' = phase,
             \A a \in Actors, c \in Clients :
               Holds(a, c)' => Holds(a, c) \/ (c \in clients /\ c \in handles)
      PROVE  Referenced'
  BY <1>a DEF Referenced
<1>b. job' = job => \A a \in Actors, c \in Clients : Holds(a, c)' => Holds(a, c)
  BY DEF Holds
<1>1. ASSUME NEW c \in Clients, CreateClient(c) PROVE Referenced'
  <2>1. \A a \in Actors, d \in Clients : Holds(a, d)' => Holds(a, d)
    BY <1>0, <1>1 DEF CreateClient, Holds, Holding, TypeOK
  <2>2. \A d \in Clients : phase[d] = "live" => phase'[d] = "live"
    BY <1>1 DEF CreateClient, TypeOK
  <2>3. \A r \in Range(reaperQueue) : r.ctx # None => r.ctx \in Clients
    BY TaskType
  <2>4. \A d \in clients' : phase'[d] = "live"
    BY <1>1, <2>2 DEF CreateClient, TypeOK, Referenced
  <2> QED BY <1>1, <2>1, <2>2, <2>3, <2>4 DEF CreateClient, Referenced
<1>2. CASE CreateDelivered
  <2>1. \A a \in Actors, d \in Clients : Holds(a, d)' => Holds(a, d)
    BY <1>0, <1>2 DEF CreateDelivered, Holds, Holding, TypeOK, IdleJob
  <2> QED BY <1>2, <2>1 DEF CreateDelivered, Referenced
<1>3. CASE CreateRefused
  <2> DEFINE c == job[Connections].ctx
  <2>1. c \in Clients /\ c \notin handles /\ clients' = clients \ {c}
        /\ reaperQueue' = reaperQueue /\ handles' = handles
    BY <1>3 DEF CreateRefused, Creating, TypeOK
  <2>2. \A a \in Actors, d \in Clients : Holds(a, d)' => Holds(a, d)
    BY <1>0, <1>3 DEF CreateRefused, Holds, Holding, TypeOK
  <2>3. \A d \in Clients : d # c => phase'[d] = phase[d]
    BY <1>3 DEF CreateRefused, TypeOK
  <2>4. \A r \in Range(reaperQueue) : r.ctx # None => r.ctx \in Clients
    BY TaskType
  <2> HIDE DEF c
  <2>5. \A d \in clients' : phase'[d] = "live"
    BY <2>1, <2>3 DEF Referenced, TypeOK
  <2>6. \A b \in Actors, d \in Clients : Holds(b, d)' => phase'[d] = "live" /\ d \in handles'
    BY <2>1, <2>2, <2>3 DEF Referenced
  <2>7. \A r \in Range(reaperQueue') :
          r.ctx # None => phase'[r.ctx] = "live" /\ r.ctx \in handles'
    BY <2>1, <2>3, <2>4 DEF Referenced
  <2> QED BY <2>5, <2>6, <2>7 DEF Referenced
<1>4. ASSUME NEW t \in Threads, NEW c \in Clients, NEW k \in Calls, StartCall(t, k, c)
      PROVE  Referenced'
  <2>1. \A a \in Actors, d \in Clients : Holds(a, d)' => Holds(a, d) \/ d = c
    BY <1>0, <1>4 DEF StartCall, Holds, Holding, TypeOK
  <2> QED BY <1>a, <1>4, <2>1 DEF StartCall
<1>5. ASSUME NEW t \in Threads, NEW c \in Clients, NEW k \in Calls, RejectCall(t, k, c)
      PROVE  Referenced'
  BY <1>a, <1>b, <1>5 DEF RejectCall
<1>6. ASSUME NEW t \in Threads, NEW c \in Clients, NEW d \in Closes, DestroyAsync(t, d, c)
      PROVE  Referenced'
  <2>1. \A a \in Actors, e \in Clients : Holds(a, e)' => Holds(a, e) \/ (e = c /\ c \in clients)
    BY <1>0, <1>6, Names DEF DestroyAsync, Retire, Holds, Holding, TypeOK
  <2> QED BY <1>a, <1>6, <2>1 DEF DestroyAsync, Retire
<1>7. ASSUME NEW t \in Threads, NEW c \in Clients, StartSync(t, c) PROVE Referenced'
  <2>1. \A a \in Actors, d \in Clients : Holds(a, d)' => Holds(a, d) \/ d = c
    BY <1>0, <1>7 DEF StartSync, Holds, Holding, TypeOK
  <2> QED BY <1>a, <1>7, <2>1 DEF StartSync
<1>8. ASSUME NEW t \in Threads, NEW c \in Clients, Destroy(t, c) PROVE Referenced'
  <2>1. \A a \in Actors, e \in Clients : Holds(a, e)' => Holds(a, e) \/ (e = c /\ c \in clients)
    BY <1>0, <1>8, Names DEF Destroy, Retire, Holds, Holding, TypeOK
  <2> QED BY <1>a, <1>8, <2>1 DEF Destroy, Retire
<1>9. ASSUME NEW t \in Threads, Dispatch(t) PROVE Referenced'
  <2>1. \A a \in Actors, d \in Clients : Holds(a, d)' => Holds(a, d)
    BY <1>0, <1>9 DEF Dispatch, Holds, Holding, TypeOK
  <2> QED BY <1>a, <1>9, <2>1 DEF Dispatch
<1>10. ASSUME NEW t \in Threads, Return(t) PROVE Referenced'
  <2>1. IdleJob \in Jobs /\ t \in Actors /\ job[t].ctx \in Clients \cup {None}
        /\ IdleJob.at \notin Holding
    BY Names, JobType DEF IdleJob, Jobs, Stages, Holding
  <2> QED BY <1>10, <2>1, DropReferenced DEF Return
<1>11. ASSUME NEW t \in Threads, PostToReaper(t) PROVE Referenced'
  <2> DEFINE r == [ctx |-> job[t].ctx, id |-> job[t].id]
  <2>1. \A a \in Actors, d \in Clients : Holds(a, d)' => Holds(a, d)
    BY <1>0, <1>11 DEF PostToReaper, Holds, Holding, TypeOK, IdleJob
  <2>2. r \in Task /\ r.ctx = job[t].ctx
    BY <1>11, Names, JobType DEF PostToReaper, Carrying, Task
  <2>3. reaperQueue' = Append(reaperQueue, r)
    BY <1>11 DEF PostToReaper
  <2> HIDE DEF r
  <2>4. Range(reaperQueue') = Range(reaperQueue) \cup {r}
    BY <2>2, <2>3, Put, TaskType
  <2>5. r.ctx # None => Holds(t, r.ctx) /\ r.ctx \in Clients
    BY <1>11, <2>2 DEF PostToReaper, Holds, Holding, Task
  <2>6. r.ctx # None => phase[r.ctx] = "live" /\ r.ctx \in handles
    BY <1>0, <2>5 DEF Referenced
  <2> QED BY <1>11, <2>1, <2>4, <2>6 DEF PostToReaper, Referenced
<1>12. CASE ReaperReset
  <2>1. /\ Head(reaperQueue) \in Task /\ reaperQueue' = Tail(reaperQueue)
        /\ Range(Tail(reaperQueue)) \subseteq Range(reaperQueue)
    BY <1>12, Taken DEF ReaperReset, Task, TypeOK
  <2> DEFINE next == [at |-> "answering", ctx |-> None, id |-> Head(reaperQueue).id]
  <2>2. next \in Jobs /\ next.at \notin Holding
        /\ Head(reaperQueue).ctx \in Clients \cup {None}
    BY <2>1 DEF Task, Jobs, Stages, Ports, Holding
  <2>3. Drop(Reaper, Head(reaperQueue).ctx, Tail(reaperQueue), next)
    BY <1>12 DEF ReaperReset
  <2> HIDE DEF next
  <2> QED BY <1>0, <1>12, <2>1, <2>2, <2>3, DropReferenced DEF ReaperReset
<1>13. CASE ReaperAnswer
  <2>1. \A a \in Actors, d \in Clients : Holds(a, d)' => Holds(a, d)
    BY <1>0, <1>13 DEF ReaperAnswer, Holds, Holding, TypeOK, IdleJob
  <2> QED BY <1>a, <1>13, <2>1 DEF ReaperAnswer
<1>c. ASSUME NEW c \in Clients, phase[c] # "live",
             \A d \in Clients : d # c => phase'[d] = phase[d],
             clients' = clients, handles' = handles, reaperQueue' = reaperQueue,
             \A a \in Actors, d \in Clients : Holds(a, d)' => Holds(a, d)
      PROVE  Referenced'
  <2>1. \A r \in Range(reaperQueue) : r.ctx # None => r.ctx \in Clients
    BY TaskType
  <2> QED BY <1>c, <2>1 DEF Referenced, TypeOK
<1>14. ASSUME NEW c \in Clients, OperationsJoined(c) PROVE Referenced'
  BY <1>b, <1>c, <1>14 DEF OperationsJoined, TypeOK
<1>15. ASSUME NEW c \in Clients, CoverJoined(c) PROVE Referenced'
  <2>1. \A a \in Actors, d \in Clients : Holds(a, d)' => Holds(a, d)
    <3> TAKE a \in Actors, d \in Clients
    <3>1. job'[a].at \in {job[a].at, "answering", "idle"}
          /\ (job'[a].at \in Holding => job'[a] = job[a])
      BY <1>15, JobType DEF CoverJoined, TypeOK, Jobs, IdleJob, Holding
    <3> QED BY <3>1 DEF Holds
  <2> QED BY <1>c, <1>15, <2>1 DEF CoverJoined, TypeOK
<1>16. ASSUME NEW c \in Clients, NEW q \in Queues, Take(c, q) PROVE Referenced'
  BY <1>a, <1>b, <1>16 DEF Take
<1>17. ASSUME NEW c \in Clients, NEW q \in Queues, FinishCall(c, q) PROVE Referenced'
  BY <1>a, <1>b, <1>17 DEF FinishCall
<1>18. ASSUME NEW c \in Clients, FinishRemoved(c) PROVE Referenced'
  BY <1>a, <1>b, <1>18 DEF FinishRemoved
<1>19. ASSUME NEW c \in Clients, FinishCoverWork(c) PROVE Referenced'
  BY <1>a, <1>b, <1>19 DEF FinishCoverWork
<1>20. ASSUME NEW c \in Clients, NEW q \in Queues, NEW op \in Ops, Signal(c, q, op)
       PROVE  Referenced'
  BY <1>a, <1>b, <1>20 DEF Signal
<1>21. CASE UNCHANGED vars
  BY <1>a, <1>b, <1>21 DEF vars
<1> QED
  BY <1>1, <1>2, <1>3, <1>4, <1>5, <1>6, <1>7, <1>8, <1>9, <1>10, <1>11, <1>12, <1>13,
     <1>14, <1>15, <1>16, <1>17, <1>18, <1>19, <1>20, <1>21
  DEF Next, Entry, Progress, Work, Quiescent

----------------------------------------------------------------------------
(* Jobs                                                                    *)

\* The reference of a thread ends with an idle thread or a destroyer.
LEMMA DropJob ==
    ASSUME TypeOK, Creating, Carrying,
           NEW a \in Actors, NEW c \in Clients \cup {None}, NEW pending,
           NEW next \in Jobs, next.at \notin {"created", "calling", "retired"},
           next.id \notin Calls, Drop(a, c, pending, next), a # Connections,
           handles' = handles, clients' = clients
    PROVE  Creating' /\ Carrying'
<1>1. job'[a].at \notin {"created", "calling", "retired"} /\ job'[a].id \notin Calls
      /\ \A b \in Actors \ {a} : job'[b] = job[b]
  BY DropIs
<1>2. \A d \in Clients : phase[d] # "absent" => phase'[d] # "absent"
  BY DropIs
<1>3. handles \subseteq Clients
  BY DEF TypeOK
<1>4. Creating'
  BY <1>1, <1>2, <1>3, Names DEF Creating
<1>5. Carrying'
  BY <1>1 DEF Carrying
<1> QED BY <1>4, <1>5

\* Only the connections worker creates; what the threads carry is well formed.
LEMMA JobStep ==
    ASSUME TypeOK, Referenced, Creating, Carrying, [Next]_vars
    PROVE  Creating' /\ Carrying'
<1> DEFINE Goal == Creating' /\ Carrying'
<1> SUFFICES Goal
  OBVIOUS
<1>0. /\ Threads \subseteq Actors /\ Reaper \in Actors /\ Connections \in Actors
      /\ Reaper # Connections /\ Connections \notin Threads /\ Reaper \notin Threads
      /\ None \notin Calls
      /\ job \in [Actors -> Jobs] /\ phase \in [Clients -> Phases]
      /\ handles \subseteq Clients /\ clients \subseteq Clients
  BY Names DEF TypeOK, Ports
<1>a. ASSUME handles' = handles, clients' = clients, job' = job,
             \A c \in Clients : phase[c] # "absent" => phase'[c] # "absent"
      PROVE  Goal
  BY <1>0, <1>a DEF Creating, Carrying
<1>b. ASSUME NEW a \in Actors, a # Connections, handles' = handles, phase' = phase,
             clients \subseteq clients' \cup handles,
             NEW j, job' = [job EXCEPT ![a] = j],
             j.at # "created",
             j.at = "calling" => j.ctx \in Clients /\ j.id \in Calls,
             j.at = "retired" => j.id \in Closes \cup {None},
             a = Reaper => j.id \notin Calls
      PROVE  Goal
  <2>1. job'[a] = j /\ \A b \in Actors : b # a => job'[b] = job[b]
    BY <1>0, <1>b
  <2>2. Creating'
    BY <1>0, <1>b, <2>1 DEF Creating
  <2>3. Carrying'
    BY <1>0, <1>b, <2>1 DEF Carrying
  <2> QED BY <2>2, <2>3
<1> HIDE DEF Goal
<1>c. ASSUME NEW t \in Threads, NEW c \in Clients, NEW d \in Closes \cup {None},
             Retire(t, c, d)
      PROVE  Goal
  <2> DEFINE j == [at |-> "retired", ctx |-> IF c \in clients THEN c ELSE None, id |-> d]
  <2>1. j.at = "retired" /\ j.id = d
    OBVIOUS
  <2>2. job' = [job EXCEPT ![t] = j] /\ handles' = handles /\ phase' = phase
        /\ clients' = clients \ {c} /\ c \in handles
    BY <1>c DEF Retire
  <2> HIDE DEF j
  <2> QED BY <1>0, <1>b, <1>c, <2>1, <2>2
<1>1. ASSUME NEW c \in Clients, CreateClient(c) PROVE Goal
  <2>1. job'[Connections] = [at |-> "created", ctx |-> c, id |-> None]
        /\ \A a \in Actors : a # Connections => job'[a] = job[a]
    BY <1>0, <1>1 DEF CreateClient
  <2>2. c \notin handles /\ handles' = handles /\ clients' = clients \cup {c}
    BY <1>1 DEF CreateClient, Creating
  <2>3. \A d \in Clients : phase[d] # "absent" => phase'[d] # "absent"
    BY <1>0, <1>1 DEF CreateClient
  <2>4. Creating'
    BY <1>0, <2>1, <2>2, <2>3 DEF Creating
  <2>5. Carrying'
    BY <1>0, <2>1 DEF Carrying
  <2> QED BY <2>4, <2>5 DEF Goal
<1>2. CASE CreateDelivered
  <2>1. job'[Connections] = IdleJob
        /\ \A a \in Actors : a # Connections => job'[a] = job[a]
    BY <1>0, <1>2 DEF CreateDelivered
  <2>2. handles' = handles \cup {job[Connections].ctx} /\ phase' = phase
        /\ phase[job[Connections].ctx] # "absent"
    BY <1>0, <1>2 DEF CreateDelivered, Creating, Referenced
  <2>3. Creating'
    BY <1>0, <2>1, <2>2 DEF Creating, IdleJob
  <2>4. Carrying'
    BY <1>0, <2>1 DEF Carrying, IdleJob
  <2> QED BY <2>3, <2>4 DEF Goal
<1>3. CASE CreateRefused
  <2>1. job'[Connections].at = "destroying"
        /\ \A a \in Actors : a # Connections => job'[a] = job[a]
    BY <1>0, <1>3 DEF CreateRefused, Jobs
  <2>2. handles' = handles
        /\ \A d \in Clients : phase[d] # "absent" => phase'[d] # "absent"
    BY <1>0, <1>3 DEF CreateRefused
  <2>3. Creating'
    BY <1>0, <2>1, <2>2 DEF Creating
  <2>4. Carrying'
    BY <1>0, <2>1 DEF Carrying
  <2> QED BY <2>3, <2>4 DEF Goal
<1>4. ASSUME NEW t \in Threads, NEW c \in Clients, NEW k \in Calls, StartCall(t, k, c)
      PROVE  Goal
  <2> DEFINE j == [at |-> "calling", ctx |-> c, id |-> k]
  <2>1. j.at = "calling" /\ j.ctx = c /\ j.id = k
    OBVIOUS
  <2>2. job' = [job EXCEPT ![t] = j] /\ handles' = handles /\ phase' = phase
        /\ clients' = clients
    BY <1>4 DEF StartCall
  <2> HIDE DEF j
  <2> QED BY <1>0, <1>b, <2>1, <2>2
<1>5. ASSUME NEW t \in Threads, NEW c \in Clients, NEW k \in Calls, RejectCall(t, k, c)
      PROVE  Goal
  BY <1>a, <1>5 DEF RejectCall
<1>6. ASSUME NEW t \in Threads, NEW c \in Clients, NEW d \in Closes, DestroyAsync(t, d, c)
      PROVE  Goal
  BY <1>c, <1>6 DEF DestroyAsync
<1>7. ASSUME NEW t \in Threads, NEW c \in Clients, StartSync(t, c) PROVE Goal
  <2> DEFINE j == [at |-> "sync", ctx |-> c, id |-> None]
  <2>1. j.at = "sync"
    OBVIOUS
  <2>2. job' = [job EXCEPT ![t] = j] /\ handles' = handles /\ phase' = phase
        /\ clients' = clients
    BY <1>7 DEF StartSync
  <2> HIDE DEF j
  <2> QED BY <1>0, <1>b, <2>1, <2>2
<1>8. ASSUME NEW t \in Threads, NEW c \in Clients, Destroy(t, c) PROVE Goal
  BY <1>c, <1>8 DEF Destroy
<1>9. ASSUME NEW t \in Threads, Dispatch(t) PROVE Goal
  <2> DEFINE j == [job[t] EXCEPT !.at = "returning"]
  <2>1. j.at = "returning"
    BY <1>0 DEF Jobs
  <2>2. job' = [job EXCEPT ![t] = j] /\ handles' = handles /\ phase' = phase
        /\ clients' = clients
    BY <1>9 DEF Dispatch
  <2> HIDE DEF j
  <2> QED BY <1>0, <1>b, <2>1, <2>2
<1>10. ASSUME NEW t \in Threads, Return(t) PROVE Goal
  <2>1. IdleJob \in Jobs /\ job[t].ctx \in Clients \cup {None}
        /\ IdleJob.at \notin {"created", "calling", "retired"} /\ IdleJob.id \notin Calls
    BY <1>0, JobType DEF IdleJob, Jobs, Stages
  <2> QED BY <1>0, <1>10, <2>1, DropJob DEF Return, Goal
<1>11. ASSUME NEW t \in Threads, PostToReaper(t) PROVE Goal
  <2>1. IdleJob.at = "idle" /\ job' = [job EXCEPT ![t] = IdleJob]
        /\ handles' = handles /\ phase' = phase /\ clients' = clients
    BY <1>11 DEF PostToReaper, IdleJob
  <2> QED BY <1>0, <1>b, <2>1
<1>12. CASE ReaperReset
  <2>1. Head(reaperQueue) \in Task
    BY <1>12, Taken, TaskType DEF ReaperReset
  <2> DEFINE next == [at |-> "answering", ctx |-> None, id |-> Head(reaperQueue).id]
  <2>2. next \in Jobs /\ next.at = "answering" /\ next.id \notin Calls
        /\ Head(reaperQueue).ctx \in Clients \cup {None}
    BY <1>0, <2>1, ClientAssumption DEF Task, Jobs, Stages, Ports
  <2>3. Drop(Reaper, Head(reaperQueue).ctx, Tail(reaperQueue), next)
        /\ handles' = handles /\ clients' = clients
    BY <1>12 DEF ReaperReset
  <2> HIDE DEF next
  <2> QED BY <1>0, <2>2, <2>3, DropJob DEF Goal
<1>13. CASE ReaperAnswer
  <2>1. IdleJob.at = "idle" /\ IdleJob.id = None /\ job' = [job EXCEPT ![Reaper] = IdleJob]
        /\ handles' = handles /\ phase' = phase /\ clients' = clients
    BY <1>13 DEF ReaperAnswer, IdleJob
  <2> QED BY <1>0, <1>b, <2>1
<1>14. ASSUME NEW c \in Clients, OperationsJoined(c) PROVE Goal
  BY <1>0, <1>a, <1>14 DEF OperationsJoined
<1>15. ASSUME NEW c \in Clients, CoverJoined(c) PROVE Goal
  <2>1. \A a \in Actors : job'[a] = job[a] \/ job'[a].at \in {"answering", "idle"}
    BY <1>0, <1>15 DEF CoverJoined, IdleJob, Jobs
  <2>6. job'[Reaper].id = job[Reaper].id
    BY <1>0, <1>15 DEF CoverJoined, Jobs
  <2>2. handles' = handles /\ clients' = clients
        /\ \A d \in Clients : phase[d] # "absent" => phase'[d] # "absent"
    BY <1>0, <1>15 DEF CoverJoined
  <2>3. job'[Connections] = job[Connections] \/ job'[Connections].at = "idle"
    BY <1>0, <1>15 DEF CoverJoined, IdleJob
  <2>4. Creating'
    BY <1>0, <2>1, <2>2, <2>3 DEF Creating
  <2>5. Carrying'
    BY <1>0, <2>1, <2>6 DEF Carrying
  <2> QED BY <2>4, <2>5 DEF Goal
<1>16. ASSUME NEW c \in Clients, NEW q \in Queues, Take(c, q) PROVE Goal
  BY <1>a, <1>16 DEF Take
<1>17. ASSUME NEW c \in Clients, NEW q \in Queues, FinishCall(c, q) PROVE Goal
  BY <1>a, <1>17 DEF FinishCall
<1>18. ASSUME NEW c \in Clients, FinishRemoved(c) PROVE Goal
  BY <1>a, <1>18 DEF FinishRemoved
<1>19. ASSUME NEW c \in Clients, FinishCoverWork(c) PROVE Goal
  BY <1>a, <1>19 DEF FinishCoverWork
<1>20. ASSUME NEW c \in Clients, NEW q \in Queues, NEW op \in Ops, Signal(c, q, op)
      PROVE  Goal
  BY <1>a, <1>20 DEF Signal
<1>21. CASE UNCHANGED vars
  BY <1>a, <1>21 DEF vars
<1> QED
  BY <1>1, <1>2, <1>3, <1>4, <1>5, <1>6, <1>7, <1>8, <1>9, <1>10, <1>11, <1>12, <1>13,
     <1>14, <1>15, <1>16, <1>17, <1>18, <1>19, <1>20, <1>21
  DEF Next, Entry, Progress, Work, Quiescent

----------------------------------------------------------------------------
(* Queues                                                                  *)

\* A stopping queue takes no work, so it stays drained.
LEMMA PostedDrained ==
    ASSUME TypeOK, NEW c \in Clients, NEW q \in Queues, NEW op \in Ops,
           NEW d \in Clients, NEW p \in Queues, queue[d][p] = <<>>,
           d # c \/ p # q \/ Stopping(c, q)
    PROVE  Posted(c, q, op)[d][p] = <<>>
BY PostedIs, SMTT(30)

LEMMA JoinedStep ==
    ASSUME TypeOK, Referenced, Creating, Carrying, Joined, [Next]_vars PROVE Joined'
<1> DEFINE Goal == Joined'
<1> SUFFICES Goal
  OBVIOUS
<1>0. /\ phase \in [Clients -> Phases] /\ Queues = {"operations", "cover"}
      /\ Threads \subseteq Actors /\ clients \subseteq Clients
  BY Names DEF TypeOK
<1>a. ASSUME queue' = queue, running' = running,
             \A c \in Clients : phase'[c] \in {"stopCover", "gone"} => phase'[c] = phase[c]
      PROVE  Goal
  BY <1>a DEF Joined, Drained
<1>b. ASSUME NEW c \in Clients, NEW q \in Queues, NEW op \in Ops,
             queue' = Posted(c, q, op), phase' = phase,
             \A d \in Clients, p \in Queues : running'[d][p] \in {running[d][p], None}
      PROVE  Goal
  <2>1. \A d \in Clients : phase[d] \in {"stopCover", "gone"} => Stopping(d, "operations")
                                                           /\ Stopping(d, "cover")
    BY DEF Stopping
  <2>2. ASSUME NEW d \in Clients, phase[d] \in {"stopCover", "gone"}, NEW p \in Queues,
               Drained(d, p)
        PROVE  Drained(d, p)'
    BY <1>0, <1>b, <2>1, <2>2, PostedDrained DEF Drained
  <2> QED BY <1>0, <1>b, <2>2 DEF Joined
<1>c. ASSUME NEW a \in Actors, NEW c \in Clients \cup {None}, NEW pending, NEW next \in Jobs,
             Drop(a, c, pending, next), queue' = queue, running' = running
      PROVE  Goal
  BY <1>a, <1>c, DropIs
<1> HIDE DEF Goal
<1>1. ASSUME NEW c \in Clients, CreateClient(c) PROVE Goal
  BY <1>0, <1>a, <1>1 DEF CreateClient
<1>2. CASE CreateDelivered
  BY <1>a, <1>2 DEF CreateDelivered
<1>3. CASE CreateRefused
  BY <1>0, <1>a, <1>3 DEF CreateRefused, Creating
<1>4. ASSUME NEW t \in Threads, NEW c \in Clients, NEW k \in Calls, StartCall(t, k, c)
      PROVE  Goal
  BY <1>a, <1>4 DEF StartCall
<1>5. ASSUME NEW t \in Threads, NEW c \in Clients, NEW k \in Calls, RejectCall(t, k, c)
      PROVE  Goal
  BY <1>a, <1>5 DEF RejectCall
<1>6. ASSUME NEW t \in Threads, NEW c \in Clients, NEW d \in Closes, DestroyAsync(t, d, c)
      PROVE  Goal
  BY <1>a, <1>6 DEF DestroyAsync, Retire
<1>7. ASSUME NEW t \in Threads, NEW c \in Clients, StartSync(t, c) PROVE Goal
  BY <1>a, <1>7 DEF StartSync
<1>8. ASSUME NEW t \in Threads, NEW c \in Clients, Destroy(t, c) PROVE Goal
  BY <1>a, <1>8 DEF Destroy, Retire
<1>9. ASSUME NEW t \in Threads, Dispatch(t) PROVE Goal
  <2>1. job[t].ctx \in Clients /\ job[t].id \in Ops /\ QueueOf(job[t].id) \in Queues
    BY <1>0, <1>9, Names DEF Dispatch, Carrying, QueueOf
  <2> QED BY <1>b, <1>9, <2>1 DEF Dispatch
<1>10. ASSUME NEW t \in Threads, Return(t) PROVE Goal
  <2>1. IdleJob \in Jobs /\ job[t].ctx \in Clients \cup {None}
    BY <1>0, JobType DEF IdleJob, Jobs, Stages
  <2> QED BY <1>0, <1>10, <1>c, <2>1 DEF Return
<1>11. ASSUME NEW t \in Threads, PostToReaper(t) PROVE Goal
  BY <1>a, <1>11 DEF PostToReaper
<1>12. CASE ReaperReset
  <2>1. Head(reaperQueue) \in Task
    BY <1>12, Taken, TaskType DEF ReaperReset
  <2> DEFINE next == [at |-> "answering", ctx |-> None, id |-> Head(reaperQueue).id]
  <2>2. next \in Jobs /\ Head(reaperQueue).ctx \in Clients \cup {None}
    BY <2>1 DEF Task, Jobs, Stages, Ports
  <2>3. Drop(Reaper, Head(reaperQueue).ctx, Tail(reaperQueue), next)
        /\ queue' = queue /\ running' = running
    BY <1>12 DEF ReaperReset
  <2> HIDE DEF next
  <2> QED BY <1>c, <2>2, <2>3, Names
<1>13. CASE ReaperAnswer
  BY <1>a, <1>13 DEF ReaperAnswer
<1>14. ASSUME NEW c \in Clients, OperationsJoined(c) PROVE Goal
  <2>1. Drained(c, "operations")' /\ phase'[c] = "stopCover"
        /\ \A d \in Clients : d # c => phase'[d] = phase[d]
    BY <1>0, <1>14 DEF OperationsJoined, Drained
  <2> QED BY <1>14, <2>1 DEF OperationsJoined, Joined, Drained, Goal
<1>15. ASSUME NEW c \in Clients, CoverJoined(c) PROVE Goal
  <2>1. phase[c] = "stopCover" /\ \A d \in Clients : d # c => phase'[d] = phase[d]
    BY <1>0, <1>15 DEF CoverJoined
  <2> QED BY <1>15, <2>1 DEF CoverJoined, Joined, Drained, Goal
<1>16. ASSUME NEW c \in Clients, NEW q \in Queues, Take(c, q) PROVE Goal
  <2>1. \A d \in Clients, p \in Queues : d # c \/ p # q =>
          running'[d][p] = running[d][p] /\ queue'[d][p] = queue[d][p]
    BY <1>16 DEF Take, TypeOK
  <2>2. ~Drained(c, q)
    BY <1>16 DEF Take, Drained
  <2>3. phase' = phase
    BY <1>16 DEF Take
  <2> QED BY <1>0, <2>1, <2>2, <2>3 DEF Joined, Drained, Goal
<1>17. ASSUME NEW c \in Clients, NEW q \in Queues, FinishCall(c, q) PROVE Goal
  <2>1. \A d \in Clients, p \in Queues : running'[d][p] \in {running[d][p], None}
    BY <1>17 DEF FinishCall, TypeOK
  <2> QED BY <1>17, <2>1 DEF FinishCall, Joined, Drained, Goal
<1>18. ASSUME NEW c \in Clients, FinishRemoved(c) PROVE Goal
  <2>1. \A d \in Clients, p \in Queues : running'[d][p] \in {running[d][p], None}
    BY <1>18 DEF FinishRemoved, TypeOK
  <2> QED BY <1>0, <1>b, <1>18, <2>1, Names DEF FinishRemoved
<1>19. ASSUME NEW c \in Clients, FinishCoverWork(c) PROVE Goal
  <2>1. \A d \in Clients, p \in Queues : running'[d][p] \in {running[d][p], None}
    BY <1>19 DEF FinishCoverWork, TypeOK
  <2> QED BY <1>19, <2>1 DEF FinishCoverWork, Joined, Drained, Goal
<1>20. ASSUME NEW c \in Clients, NEW q \in Queues, NEW op \in Ops, Signal(c, q, op)
      PROVE  Goal
  BY <1>b, <1>20 DEF Signal
<1>21. CASE UNCHANGED vars
  BY <1>a, <1>21 DEF vars
<1> QED
  BY <1>1, <1>2, <1>3, <1>4, <1>5, <1>6, <1>7, <1>8, <1>9, <1>10, <1>11, <1>12, <1>13,
     <1>14, <1>15, <1>16, <1>17, <1>18, <1>19, <1>20, <1>21
  DEF Next, Entry, Progress, Work, Quiescent

----------------------------------------------------------------------------
(* Calls                                                                   *)

LEMMA LocatedStep ==
    ASSUME TypeOK, Referenced, Creating, Carrying, DueIsLocated, [Next]_vars
    PROVE  DueIsLocated'
<1> SUFFICES ASSUME NEW k \in Calls, target'[k] # None, answers'[k] = 0
             PROVE  Located(k, target[k])'
  BY DEF DueIsLocated
<1> DEFINE Goal == Located(k, target[k])'
           here == target[k]
           Q == QueueOf(k)
           calling(t) == job[t].at = "calling" /\ job[t].ctx = here /\ job[t].id = k
<1>0. /\ Threads \subseteq Actors /\ k \in Ports /\ k \in Ops /\ k # None
      /\ None \notin Ports /\ Q \in Queues /\ Reaper \notin Threads /\ Connections \notin Threads
      /\ Removed # k /\ CoverWork # k /\ here \in Clients \cup {None}
      /\ answers[k] \in Nat /\ job \in [Actors -> Jobs]
  BY Names DEF TypeOK, Ports, QueueOf, Ops
<1>1. target'[k] = target[k] /\ answers[k] = 0 =>
        /\ here \in Clients
        /\ \/ \E t \in Threads : calling(t)
           \/ k \in Range(queue[here][Q])
           \/ running[here][Q] = k
  BY <1>0 DEF DueIsLocated, Located
<1>a. ASSUME target'[k] = target[k], answers'[k] = answers[k],
             \A t \in Threads : calling(t) => job'[t] = job[t],
             here \in Clients =>
               /\ Range(queue[here][Q]) \subseteq Range(queue'[here][Q])
               /\ running[here][Q] = k => running'[here][Q] = k
      PROVE  Goal
  BY <1>1, <1>a DEF Located
<1>b. ASSUME NEW a \in Actors, job[a].at # "calling", NEW c \in Clients \cup {None},
             NEW pending, NEW next \in Jobs, Drop(a, c, pending, next)
      PROVE  \A t \in Threads : calling(t) => job'[t] = job[t]
  <2>1. \A b \in Actors \ {a} : job'[b] = job[b]
    BY <1>b, DropIs
  <2> QED BY <1>0, <1>b, <2>1
<1>c. ASSUME NEW a \in Actors, job[a].at # "calling", NEW j, job' = [job EXCEPT ![a] = j]
      PROVE  \A t \in Threads : calling(t) => job'[t] = job[t]
  BY <1>0, <1>c
<1>d. ASSUME NEW c \in Clients, NEW q \in Queues, NEW op \in Ops, queue' = Posted(c, q, op),
             here \in Clients
      PROVE  Range(queue[here][Q]) \subseteq Range(queue'[here][Q])
  BY <1>0, <1>d, PostedIs
<1> SUFFICES Goal
  OBVIOUS
<1> HIDE DEF Goal, calling, here, Q
<1>2. ASSUME NEW c \in Clients, CreateClient(c) PROVE Goal
  <2>1. \A t \in Threads : job'[t] = job[t]
    BY <1>0, <1>2 DEF CreateClient
  <2> QED BY <1>a, <1>2, <2>1 DEF CreateClient
<1>3. CASE CreateDelivered
  <2>1. \A t \in Threads : job'[t] = job[t]
    BY <1>0, <1>3 DEF CreateDelivered
  <2> QED BY <1>a, <1>3, <2>1 DEF CreateDelivered
<1>4. CASE CreateRefused
  <2>1. \A t \in Threads : job'[t] = job[t]
    BY <1>0, <1>4 DEF CreateRefused
  <2> QED BY <1>a, <1>4, <2>1 DEF CreateRefused
<1>5. ASSUME NEW t \in Threads, NEW c \in Clients, NEW m \in Calls, StartCall(t, m, c)
      PROVE  Goal
  <2>1. \A u \in Threads : calling(u) => job'[u] = job[u]
    BY <1>0, <1>5 DEF StartCall, calling
  <2>2. CASE m = k
    BY <1>0, <1>5, <2>2 DEF StartCall, Located, Goal, TypeOK
  <2>3. CASE m # k
    <3>1. target'[k] = target[k]
      BY <1>0, <1>5, <2>3 DEF StartCall, TypeOK
    <3> QED BY <1>a, <1>5, <2>1, <3>1 DEF StartCall
  <2> QED BY <2>2, <2>3
<1>6. ASSUME NEW t \in Threads, NEW c \in Clients, NEW m \in Calls, RejectCall(t, m, c)
      PROVE  Goal
  <2>1. m # k /\ target'[k] = target[k] /\ answers'[k] = answers[k]
    BY <1>0, <1>6 DEF RejectCall, TypeOK
  <2> QED BY <1>a, <1>6, <2>1 DEF RejectCall
<1>7. ASSUME NEW t \in Threads, NEW c \in Clients, NEW d \in Closes, DestroyAsync(t, d, c)
      PROVE  Goal
  <2>1. target'[k] = target[k]
    BY <1>0, <1>7, ClientAssumption DEF DestroyAsync, TypeOK
  <2>2. \A u \in Threads : calling(u) => job'[u] = job[u]
    BY <1>0, <1>7 DEF DestroyAsync, Retire, calling
  <2> QED BY <1>a, <1>7, <2>1, <2>2 DEF DestroyAsync, Retire
<1>8. ASSUME NEW t \in Threads, NEW c \in Clients, StartSync(t, c) PROVE Goal
  <2>1. \A u \in Threads : calling(u) => job'[u] = job[u]
    BY <1>0, <1>8 DEF StartSync, calling
  <2> QED BY <1>a, <1>8, <2>1 DEF StartSync
<1>9. ASSUME NEW t \in Threads, NEW c \in Clients, Destroy(t, c) PROVE Goal
  <2>1. \A u \in Threads : calling(u) => job'[u] = job[u]
    BY <1>0, <1>9 DEF Destroy, Retire, calling
  <2> QED BY <1>a, <1>9, <2>1 DEF Destroy, Retire
<1>10. ASSUME NEW t \in Threads, Dispatch(t) PROVE Goal
  <2> DEFINE c == job[t].ctx
             m == job[t].id
  <2>1. c \in Clients /\ m \in Calls /\ m \in Ops /\ QueueOf(m) \in Queues
    BY <1>0, <1>10, Names DEF Dispatch, Carrying, QueueOf
  <2>2. queue' = Posted(c, QueueOf(m), m)
    BY <1>10 DEF Dispatch
  <2>3. phase[c] = "live"
    BY <1>0, <1>10, <2>1 DEF Dispatch, Referenced, Holds, Holding
  <2>4. m \in Range(queue'[c][QueueOf(m)])
    BY <2>1, <2>2, <2>3, PostedIs DEF Stopping
  <2>5. \A u \in Threads : calling(u) /\ u # t => job'[u] = job[u]
    BY <1>0, <1>10 DEF Dispatch
  <2>6. here \in Clients => Range(queue[here][Q]) \subseteq Range(queue'[here][Q])
    BY <1>d, <2>1, <2>2
  <2>7. target' = target /\ answers' = answers /\ running' = running
    BY <1>10 DEF Dispatch
  <2>8. CASE calling(t)
    BY <2>4, <2>7, <2>8 DEF calling, here, Goal, Located
  <2>9. CASE ~calling(t)
    BY <1>a, <2>5, <2>6, <2>7, <2>9
  <2> QED BY <2>8, <2>9
<1>11. ASSUME NEW t \in Threads, Return(t) PROVE Goal
  <2>1. IdleJob \in Jobs /\ job[t].ctx \in Clients \cup {None} /\ t \in Actors
        /\ job[t].at # "calling"
    BY <1>0, <1>11, JobType DEF IdleJob, Jobs, Stages, Return
  <2> QED BY <1>a, <1>b, <1>11, <2>1 DEF Return
<1>12. ASSUME NEW t \in Threads, PostToReaper(t) PROVE Goal
  <2>1. \A u \in Threads : calling(u) => job'[u] = job[u]
    BY <1>0, <1>12 DEF PostToReaper, calling
  <2> QED BY <1>a, <1>12, <2>1 DEF PostToReaper
<1>13. CASE ReaperReset
  <2>1. Head(reaperQueue) \in Task
    BY <1>13, Taken, TaskType DEF ReaperReset
  <2> DEFINE next == [at |-> "answering", ctx |-> None, id |-> Head(reaperQueue).id]
  <2>2. next \in Jobs /\ Head(reaperQueue).ctx \in Clients \cup {None}
    BY <2>1 DEF Task, Jobs, Stages, Ports
  <2>3. Drop(Reaper, Head(reaperQueue).ctx, Tail(reaperQueue), next) /\ job[Reaper].at = "idle"
    BY <1>13 DEF ReaperReset
  <2> HIDE DEF next
  <2>4. \A u \in Threads : calling(u) => job'[u] = job[u]
    BY <1>b, <2>2, <2>3, Names
  <2> QED BY <1>a, <1>13, <2>4 DEF ReaperReset
<1>14. CASE ReaperAnswer
  <2>1. \A u \in Threads : calling(u) => job'[u] = job[u]
    BY <1>0, <1>14 DEF ReaperAnswer
  <2>2. answers'[k] = answers[k]
    <3>1. \A p \in Ports : answers'[p] = answers[p] \/ answers'[p] = answers[p] + 1
      BY <1>14 DEF ReaperAnswer, TypeOK
    <3> QED BY <1>0, <3>1
  <2> QED BY <1>a, <1>14, <2>1, <2>2 DEF ReaperAnswer
<1>15. ASSUME NEW c \in Clients, OperationsJoined(c) PROVE Goal
  BY <1>a, <1>15 DEF OperationsJoined
<1>16. ASSUME NEW c \in Clients, CoverJoined(c) PROVE Goal
  <2>1. \A u \in Threads : calling(u) => job'[u] = job[u]
    BY <1>0, <1>16 DEF CoverJoined, calling
  <2> QED BY <1>a, <1>16, <2>1 DEF CoverJoined
<1>17. ASSUME NEW c \in Clients, NEW q \in Queues, Take(c, q) PROVE Goal
  <2>1. /\ Range(queue[c][q]) \subseteq Range(queue'[c][q]) \cup {running'[c][q]}
        /\ running[c][q] = None
        /\ \A d \in Clients, p \in Queues : d # c \/ p # q =>
             running'[d][p] = running[d][p] /\ queue'[d][p] = queue[d][p]
    BY <1>17, QueueType, Taken DEF Take, TypeOK
  <2>2. target' = target /\ answers' = answers /\ job' = job
    BY <1>17 DEF Take
  <2> QED BY <1>0, <1>1, <2>1, <2>2 DEF Goal, Located, calling, here, Q
<1>18. ASSUME NEW c \in Clients, NEW q \in Queues, FinishCall(c, q) PROVE Goal
  <2>1. running[c][q] # k /\ answers'[k] = answers[k]
    BY <1>0, <1>18 DEF FinishCall, TypeOK, Ports
  <2>2. \A d \in Clients, p \in Queues : running[d][p] = k => running'[d][p] = k
    BY <1>18, <2>1 DEF FinishCall, TypeOK
  <2> QED BY <1>0, <1>a, <1>18, <2>1, <2>2 DEF FinishCall
<1>19. ASSUME NEW c \in Clients, FinishRemoved(c) PROVE Goal
  <2>1. \A d \in Clients, p \in Queues : running[d][p] = k => running'[d][p] = k
    BY <1>0, <1>19 DEF FinishRemoved, TypeOK
  <2> QED BY <1>0, <1>a, <1>d, <1>19, <2>1, Names DEF FinishRemoved
<1>20. ASSUME NEW c \in Clients, FinishCoverWork(c) PROVE Goal
  <2>1. \A d \in Clients, p \in Queues : running[d][p] = k => running'[d][p] = k
    BY <1>0, <1>20 DEF FinishCoverWork, TypeOK
  <2> QED BY <1>0, <1>a, <1>20, <2>1 DEF FinishCoverWork
<1>21. ASSUME NEW c \in Clients, NEW q \in Queues, NEW op \in Ops, Signal(c, q, op)
      PROVE  Goal
  BY <1>a, <1>d, <1>21 DEF Signal
<1>22. CASE UNCHANGED vars
  BY <1>a, <1>22 DEF vars
<1> QED
  BY <1>2, <1>3, <1>4, <1>5, <1>6, <1>7, <1>8, <1>9, <1>10, <1>11, <1>12, <1>13,
     <1>14, <1>15, <1>16, <1>17, <1>18, <1>19, <1>20, <1>21, <1>22
  DEF Next, Entry, Progress, Work, Quiescent

\* What an operation added at the end, or taken from the front, means for k.
LEMMA PutOnce ==
    ASSUME NEW s \in Seq(Ops), NEW e \in Ops, NEW k, OnceIn(s, k),
           e # k \/ k \notin Range(s)
    PROVE  OnceIn(Append(s, e), k)
<1>1. Len(Append(s, e)) = Len(s) + 1 /\ DOMAIN s = 1..Len(s)
      /\ DOMAIN Append(s, e) = 1..(Len(s) + 1) /\ Len(s) \in Nat
  OBVIOUS
<1>2. \A i \in 1..Len(s) : Append(s, e)[i] = s[i]
  OBVIOUS
<1>3. Append(s, e)[Len(s) + 1] = e
  OBVIOUS
<1>4. e = k => \A i \in 1..Len(s) : s[i] # k
  BY <1>1 DEF Range
<1> QED BY <1>1, <1>2, <1>3, <1>4 DEF OnceIn

LEMMA TakenOnce ==
    ASSUME NEW s \in Seq(Ops), s # <<>>, NEW k, OnceIn(s, k)
    PROVE  OnceIn(Tail(s), k) /\ (Head(s) = k => k \notin Range(Tail(s)))
<1>1. /\ DOMAIN s = 1..Len(s) /\ Len(s) \in Nat \ {0}
      /\ DOMAIN Tail(s) = 1..(Len(s) - 1) /\ Head(s) = s[1]
  OBVIOUS
<1>2. \A i \in 1..(Len(s) - 1) : Tail(s)[i] = s[i + 1] /\ i + 1 \in 1..Len(s)
  OBVIOUS
<1>3. OnceIn(Tail(s), k)
  <2> SUFFICES ASSUME NEW i \in 1..(Len(s) - 1), NEW j \in 1..(Len(s) - 1),
                      Tail(s)[i] = k, Tail(s)[j] = k
               PROVE  i = j
    BY <1>1 DEF OnceIn
  <2>1. s[i + 1] = k /\ s[j + 1] = k /\ i + 1 \in DOMAIN s /\ j + 1 \in DOMAIN s
    BY <1>1, <1>2
  <2>2. i + 1 = j + 1
    BY <2>1 DEF OnceIn
  <2> QED BY <2>2
<1>4. Head(s) = k => k \notin Range(Tail(s))
  <2> SUFFICES ASSUME s[1] = k, NEW i \in 1..(Len(s) - 1), Tail(s)[i] = k PROVE FALSE
    BY <1>1 DEF Range
  <2>1. i + 1 = 1
    BY <1>1, <1>2 DEF OnceIn
  <2> QED BY <2>1
<1> QED BY <1>3, <1>4

LEMMA PostedOnce ==
    ASSUME TypeOK, NEW c \in Clients, NEW q \in Queues, NEW op \in Ops, NEW k, op # k,
           NEW d \in Clients, NEW p \in Queues, OnceIn(queue[d][p], k)
    PROVE  /\ k \in Range(Posted(c, q, op)[d][p]) => k \in Range(queue[d][p])
           /\ OnceIn(Posted(c, q, op)[d][p], k)
<1>1. CASE d # c \/ p # q \/ Stopping(c, q)
  BY <1>1, PostedIs, SMTT(30)
<1>2. CASE d = c /\ p = q /\ ~Stopping(c, q)
  <2>1. Posted(c, q, op)[c][q] = Append(queue[c][q], op) /\ queue[c][q] \in Seq(Ops)
    BY <1>2, PostedIs, QueueType
  <2>2. Range(Append(queue[c][q], op)) = Range(queue[c][q]) \cup {op}
    BY <2>1, Put
  <2>3. OnceIn(Append(queue[c][q], op), k)
    BY <1>2, <2>1, PutOnce
  <2> QED BY <1>2, <2>1, <2>2, <2>3
<1> QED BY <1>1, <1>2

\* The places of a call, and how many there are.
LEMMA WaitingIs ==
    ASSUME NEW k, NEW x
    PROVE  x \in Waiting(k) <=>
             \/ \E t \in Threads : Calling(t, k) /\ x = <<"calling", t>>
             \/ \E c \in Clients, q \in Queues : running[c][q] = k /\ x = <<"running", <<c, q>>>>
             \/ \E c \in Clients, q \in Queues :
                  \E i \in DOMAIN queue[c][q] :
                    queue[c][q][i] = k /\ x = <<"queued", c, q, i>>
<1> DEFINE A == {<<"calling", t>> : t \in {u \in Threads : job[u].at = "calling" /\ job[u].id = k}}
           B == {<<"running", w>> : w \in {v \in Clients \X Queues : running[v[1]][v[2]] = k}}
           D(c, q) == {<<"queued", c, q, i>> : i \in {j \in DOMAIN queue[c][q] :
                                                         queue[c][q][j] = k}}
           E == UNION {D(c, q) : c \in Clients, q \in Queues}
<1>1. x \in Waiting(k) <=> x \in A \/ x \in B \/ x \in E
  BY DEF Waiting
<1>2. x \in A <=> \E t \in Threads : Calling(t, k) /\ x = <<"calling", t>>
  BY DEF Calling
<1>3. x \in B <=> \E c \in Clients, q \in Queues : running[c][q] = k /\ x = <<"running", <<c, q>>>>
  <2>1. ASSUME x \in B
        PROVE  \E c \in Clients, q \in Queues : running[c][q] = k /\ x = <<"running", <<c, q>>>>
    <3>1. PICK w \in Clients \X Queues : running[w[1]][w[2]] = k /\ x = <<"running", w>>
      BY <2>1
    <3>2. w[1] \in Clients /\ w[2] \in Queues /\ w = <<w[1], w[2]>>
      OBVIOUS
    <3> QED BY <3>1, <3>2
  <2>2. ASSUME NEW c \in Clients, NEW q \in Queues, running[c][q] = k,
               x = <<"running", <<c, q>>>>
        PROVE  x \in B
    <3>1. <<c, q>> \in Clients \X Queues /\ <<c, q>>[1] = c /\ <<c, q>>[2] = q
      OBVIOUS
    <3> QED BY <2>2, <3>1
  <2> QED BY <2>1, <2>2
<1>4. x \in E <=> \E c \in Clients, q \in Queues : x \in D(c, q)
  <2> HIDE DEF D
  <2>1. ASSUME x \in E PROVE \E c \in Clients, q \in Queues : x \in D(c, q)
    <3>1. PICK S \in {D(c, q) : c \in Clients, q \in Queues} : x \in S
      BY <2>1
    <3> QED BY <3>1
  <2>2. ASSUME NEW c \in Clients, NEW q \in Queues, x \in D(c, q) PROVE x \in E
    <3>1. D(c, q) \in {D(d, p) : d \in Clients, p \in Queues}
      OBVIOUS
    <3> QED BY <2>2, <3>1
  <2> QED BY <2>1, <2>2
<1>5. \A c \in Clients, q \in Queues :
        x \in D(c, q) <=> \E i \in DOMAIN queue[c][q] :
                            queue[c][q][i] = k /\ x = <<"queued", c, q, i>>
  OBVIOUS
<1> HIDE DEF A, B, D, E
<1> QED BY <1>1, <1>2, <1>3, <1>4, <1>5

\* Where a call is due it is in one place, and in none otherwise.
LEMMA Counted ==
    ASSUME InOnePlace, DueIsLocated, NEW k \in Calls, TypeOK, Carrying
    PROVE  IF target[k] # None /\ answers[k] = 0 THEN \E w : Waiting(k) = {w}
                                                 ELSE Waiting(k) = {}
<1>h. Once(k)
  BY DEF InOnePlace
<1>0. target[k] \in Clients \cup {None} /\ None \notin Clients /\ QueueOf(k) \in Queues
  BY Names DEF TypeOK, Ports, QueueOf
<1>1. ASSUME ~(target[k] # None /\ answers[k] = 0) PROVE Waiting(k) = {}
  <2>1. \A t \in Threads : ~Calling(t, k)
    <3> SUFFICES ASSUME NEW t \in Threads, Calling(t, k) PROVE FALSE
      OBVIOUS
    <3>1. job[t].ctx = target[k] /\ answers[k] = 0
      BY <1>h DEF Once
    <3>2. job[t].ctx \in Clients
      BY Names DEF Calling, Carrying
    <3> QED BY <1>0, <1>1, <3>1, <3>2
  <2>2. \A c \in Clients, q \in Queues : running[c][q] # k /\ k \notin Range(queue[c][q])
    BY <1>0, <1>h, <1>1 DEF Once
  <2>3. \A c \in Clients, q \in Queues : \A i \in DOMAIN queue[c][q] : queue[c][q][i] # k
    BY <2>2 DEF Range
  <2>4. \A x : x \notin Waiting(k)
    BY <2>1, <2>2, <2>3, WaitingIs
  <2> QED BY <2>4
<1>2. ASSUME target[k] # None, answers[k] = 0 PROVE \E w : Waiting(k) = {w}
  <2> DEFINE c == target[k]
             q == QueueOf(k)
  <2>0. c \in Clients /\ q \in Queues
    BY <1>0, <1>2
  <2>1. CASE \E t \in Threads : Calling(t, k)
    <3>1. PICK t \in Threads : Calling(t, k)
      BY <2>1
    <3>2. /\ \A u \in Threads : Calling(u, k) => u = t
          /\ \A d \in Clients, p \in Queues : running[d][p] # k /\ k \notin Range(queue[d][p])
      BY <1>h, <3>1 DEF Once
    <3>3. \A d \in Clients, p \in Queues : \A i \in DOMAIN queue[d][p] : queue[d][p][i] # k
      BY <3>2 DEF Range
    <3>4. \A x : x \in Waiting(k) <=> x = <<"calling", t>>
      BY <3>1, <3>2, <3>3, WaitingIs
    <3>5. Waiting(k) = {<<"calling", t>>}
      BY <3>4
    <3> QED BY <3>5
  <2>2. CASE running[c][q] = k
    <3>1. \A t \in Threads : ~Calling(t, k)
      BY <1>h, <2>0, <2>2 DEF Once
    <3>2. \A d \in Clients, p \in Queues : running[d][p] = k => d = c /\ p = q
      BY <1>h DEF Once
    <3>3. \A d \in Clients, p \in Queues : k \notin Range(queue[d][p])
      <4>1. \A d \in Clients, p \in Queues : k \in Range(queue[d][p]) => d = c /\ p = q
        BY <1>h DEF Once
      <4>2. k \notin Range(queue[c][q])
        BY <1>h, <2>0, <2>2 DEF Once
      <4> QED BY <4>1, <4>2
    <3>4. \A d \in Clients, p \in Queues : \A i \in DOMAIN queue[d][p] : queue[d][p][i] # k
      BY <3>3 DEF Range
    <3> HIDE DEF c, q
    <3>5. \A x : x \in Waiting(k) <=> x = <<"running", <<c, q>>>>
      BY <2>0, <2>2, <3>1, <3>2, <3>4, WaitingIs
    <3>6. Waiting(k) = {<<"running", <<c, q>>>>}
      BY <3>5
    <3> QED BY <3>6
  <2>3. CASE k \in Range(queue[c][q])
    <3>1. \A t \in Threads : ~Calling(t, k)
      BY <1>h, <2>0, <2>3 DEF Once
    <3>2. \A d \in Clients, p \in Queues : running[d][p] # k
      BY <1>h, <2>0, <2>3 DEF Once
    <3>3. \A d \in Clients, p \in Queues : k \in Range(queue[d][p]) => d = c /\ p = q
      BY <1>h DEF Once
    <3>4. \A d \in Clients, p \in Queues : \A i \in DOMAIN queue[d][p] :
            queue[d][p][i] = k => d = c /\ p = q
      BY <3>3 DEF Range
    <3>5. PICK i \in DOMAIN queue[c][q] : queue[c][q][i] = k
      BY <2>3 DEF Range
    <3>6. \A j \in DOMAIN queue[c][q] : queue[c][q][j] = k => j = i
      BY <1>h, <2>0, <3>5 DEF Once, OnceIn
    <3> HIDE DEF c, q
    <3>7. \A x : x \in Waiting(k) <=> x = <<"queued", c, q, i>>
      BY <2>0, <3>1, <3>2, <3>4, <3>5, <3>6, WaitingIs
    <3>8. Waiting(k) = {<<"queued", c, q, i>>}
      BY <3>7
    <3> QED BY <3>8
  <2> QED BY <1>2, <2>1, <2>2, <2>3 DEF DueIsLocated, Located, Calling
<1> QED BY <1>1, <1>2

LEMMA OnceStep ==
    ASSUME TypeOK, Referenced, Creating, Carrying, InOnePlace, [Next]_vars
    PROVE  InOnePlace'
<1> SUFFICES ASSUME NEW k \in Calls PROVE Once(k)'
  BY DEF InOnePlace
<1> DEFINE Goal == Once(k)'
           Q == QueueOf(k)
<1>0. /\ Threads \subseteq Actors /\ k \in Ports /\ k \in Ops /\ k # None
      /\ None \notin Ports /\ Q \in Queues /\ Reaper \notin Threads /\ Connections \notin Threads
      /\ Removed # k /\ CoverWork # k /\ target[k] \in Clients \cup {None} /\ None \notin Clients
      /\ answers[k] \in Nat /\ job \in [Actors -> Jobs]
      /\ target \in [Ports -> Clients \cup {None}] /\ answers \in [Ports -> Nat]
      /\ running \in [Clients -> [Queues -> Ops \cup {None}]]
  BY Names DEF TypeOK, Ports, QueueOf, Ops
<1>h. Once(k)
  BY DEF InOnePlace
<1>a. ASSUME target'[k] = target[k], answers'[k] = answers[k],
             \A t \in Threads : Calling(t, k)' => job'[t] = job[t],
             \A c \in Clients, q \in Queues :
               /\ running'[c][q] = k => running[c][q] = k
               /\ k \in Range(queue'[c][q]) => k \in Range(queue[c][q])
               /\ OnceIn(queue'[c][q], k)
      PROVE  Goal
  <2>1. \A t \in Threads : Calling(t, k)' => Calling(t, k) /\ job'[t].ctx = job[t].ctx
    BY <1>a DEF Calling
  <2> QED BY <1>h, <1>a, <2>1 DEF Once
<1>q. \A c \in Clients, q \in Queues : OnceIn(queue[c][q], k)
  BY <1>h DEF Once
<1>b. ASSUME target'[k] = target[k], answers'[k] = answers[k],
             \A t \in Threads : Calling(t, k)' => job'[t] = job[t],
             queue' = queue, running' = running
      PROVE  Goal
  BY <1>a, <1>b, <1>q
<1>c. ASSUME NEW a \in Actors, NEW j, job' = [job EXCEPT ![a] = j],
             j.at # "calling" \/ j.id # k
      PROVE  \A t \in Threads : Calling(t, k)' => job'[t] = job[t]
  BY <1>0, <1>c DEF Calling
<1>d. ASSUME NEW a \in Actors, NEW c \in Clients \cup {None}, NEW pending, NEW next \in Jobs,
             Drop(a, c, pending, next), next.at # "calling"
      PROVE  \A t \in Threads : Calling(t, k)' => job'[t] = job[t]
  <2>1. job'[a].at # "calling" /\ \A b \in Actors \ {a} : job'[b] = job[b]
    BY <1>d, DropIs
  <2> QED BY <1>0, <2>1 DEF Calling
<1>e. job' = job => \A t \in Threads : Calling(t, k)' => job'[t] = job[t]
  OBVIOUS
<1>f. ASSUME NEW c \in Clients, NEW q \in Queues, NEW op \in Ops, op # k,
             queue' = Posted(c, q, op), target' = target, answers' = answers,
             \A t \in Threads : Calling(t, k)' => job'[t] = job[t],
             \A d \in Clients, p \in Queues : running'[d][p] = k => running[d][p] = k
      PROVE  Goal
  <2>1. \A d \in Clients, p \in Queues :
          /\ k \in Range(queue'[d][p]) => k \in Range(queue[d][p])
          /\ OnceIn(queue'[d][p], k)
    BY <1>f, <1>q, PostedOnce
  <2> QED BY <1>a, <1>f, <2>1
<1> SUFFICES Goal
  OBVIOUS
<1> HIDE DEF Goal, Q
<1>2. ASSUME NEW c \in Clients, CreateClient(c) PROVE Goal
  <2> DEFINE j == [at |-> "created", ctx |-> c, id |-> None]
  <2>1. j.at # "calling"
    OBVIOUS
  <2>2. job' = [job EXCEPT ![Connections] = j]
    BY <1>2 DEF CreateClient
  <2> HIDE DEF j
  <2> QED BY <1>b, <1>c, <1>2, <2>1, <2>2, Names DEF CreateClient
<1>3. CASE CreateDelivered
  <2>1. IdleJob.at # "calling" /\ job' = [job EXCEPT ![Connections] = IdleJob]
    BY <1>3 DEF CreateDelivered, IdleJob
  <2> QED BY <1>b, <1>c, <1>3, <2>1, Names DEF CreateDelivered
<1>4. CASE CreateRefused
  <2>1. \A t \in Threads : job'[t] = job[t]
    BY <1>0, <1>4 DEF CreateRefused
  <2> QED BY <1>b, <1>4, <2>1 DEF CreateRefused
<1>5. ASSUME NEW t \in Threads, NEW c \in Clients, NEW m \in Calls, StartCall(t, m, c)
      PROVE  Goal
  <2> DEFINE j == [at |-> "calling", ctx |-> c, id |-> m]
  <2>1. j.at = "calling" /\ j.ctx = c /\ j.id = m
    OBVIOUS
  <2>2. /\ job' = [job EXCEPT ![t] = j] /\ target[m] = None /\ answers' = answers
        /\ target' = [target EXCEPT ![m] = c] /\ queue' = queue /\ running' = running
    BY <1>5 DEF StartCall
  <2> HIDE DEF j
  <2>3. CASE m = k
    <3>1. /\ \A u \in Threads : ~Calling(u, k)
          /\ \A d \in Clients, q \in Queues : running[d][q] # k /\ k \notin Range(queue[d][q])
          /\ answers[k] = 0
      <4>1. job[t].at = "idle"
        BY <1>5 DEF StartCall
      <4>2. \A u \in Threads : Calling(u, k) => job[u].ctx \in Clients
        BY <1>0 DEF Calling, Carrying
      <4> QED BY <1>0, <1>h, <2>2, <2>3, <4>2 DEF Once
    <3>2. \A u \in Threads : Calling(u, k)' => u = t
      BY <1>0, <2>2, <3>1 DEF Calling
    <3>3. job'[t].ctx = c /\ target'[k] = c
      BY <1>0, <2>1, <2>2, <2>3
    <3> QED BY <1>0, <1>h, <2>2, <3>1, <3>2, <3>3 DEF Once, Goal
  <2>4. CASE m # k
    <3>1. target'[k] = target[k]
      BY <1>0, <2>2, <2>4
    <3> QED BY <1>0, <1>b, <1>c, <2>1, <2>2, <2>4, <3>1
  <2> QED BY <2>3, <2>4
<1>6. ASSUME NEW t \in Threads, NEW c \in Clients, NEW m \in Calls, RejectCall(t, m, c)
      PROVE  Goal
  <2>2. /\ job' = job /\ target[m] = None /\ answers' = [answers EXCEPT ![m] = @ + 1]
        /\ target' = [target EXCEPT ![m] = c] /\ queue' = queue /\ running' = running
    BY <1>6 DEF RejectCall
  <2>3. CASE m = k
    <3>1. /\ \A u \in Threads : ~Calling(u, k)
          /\ \A d \in Clients, q \in Queues : running[d][q] # k /\ k \notin Range(queue[d][q])
          /\ answers[k] = 0
      <4>2. \A u \in Threads : Calling(u, k) => job[u].ctx \in Clients
        BY <1>0 DEF Calling, Carrying
      <4> QED BY <1>0, <1>h, <2>2, <2>3, <4>2 DEF Once
    <3>2. \A u \in Threads : ~Calling(u, k)'
      BY <2>2, <3>1 DEF Calling
    <3>3. target'[k] = c /\ answers'[k] = 1
      BY <1>0, <2>2, <2>3, <3>1
    <3> QED BY <1>0, <1>h, <2>2, <3>1, <3>2, <3>3 DEF Once, Goal
  <2>4. CASE m # k
    <3>1. target'[k] = target[k] /\ answers'[k] = answers[k]
      BY <1>0, <2>2, <2>4
    <3> QED BY <1>b, <1>e, <2>2, <3>1
  <2> QED BY <2>3, <2>4
<1>r. ASSUME NEW t \in Threads, NEW c \in Clients, NEW d \in Closes \cup {None},
             Retire(t, c, d), target'[k] = target[k]
      PROVE  Goal
  <2> DEFINE j == [at |-> "retired", ctx |-> IF c \in clients THEN c ELSE None, id |-> d]
  <2>1. j.at # "calling"
    OBVIOUS
  <2>2. job' = [job EXCEPT ![t] = j] /\ answers' = answers /\ queue' = queue
        /\ running' = running
    BY <1>r DEF Retire
  <2> HIDE DEF j
  <2> QED BY <1>0, <1>b, <1>c, <1>r, <2>1, <2>2
<1>7. ASSUME NEW t \in Threads, NEW c \in Clients, NEW d \in Closes, DestroyAsync(t, d, c)
      PROVE  Goal
  <2>1. target'[k] = target[k]
    BY <1>0, <1>7, ClientAssumption DEF DestroyAsync
  <2> QED BY <1>r, <1>7, <2>1 DEF DestroyAsync
<1>8. ASSUME NEW t \in Threads, NEW c \in Clients, StartSync(t, c) PROVE Goal
  <2> DEFINE j == [at |-> "sync", ctx |-> c, id |-> None]
  <2>1. j.at # "calling"
    OBVIOUS
  <2>2. job' = [job EXCEPT ![t] = j]
    BY <1>8 DEF StartSync
  <2> HIDE DEF j
  <2> QED BY <1>0, <1>b, <1>c, <1>8, <2>1, <2>2 DEF StartSync
<1>9. ASSUME NEW t \in Threads, NEW c \in Clients, Destroy(t, c) PROVE Goal
  BY <1>r, <1>9 DEF Destroy
<1>10. ASSUME NEW t \in Threads, Dispatch(t) PROVE Goal
  <2> DEFINE c == job[t].ctx
             m == job[t].id
             q == QueueOf(m)
  <2>1. c \in Clients /\ m \in Calls /\ m \in Ops /\ q \in Queues /\ job[t].at = "calling"
    BY <1>0, <1>10, Names DEF Dispatch, Carrying, QueueOf
  <2>2. queue' = Posted(c, q, m) /\ target' = target /\ answers' = answers
        /\ running' = running
    BY <1>10 DEF Dispatch
  <2>3. ~Stopping(c, q)
    BY <1>0, <2>1 DEF Referenced, Holds, Holding, Stopping
  <2>4. job'[t].at = "returning" /\ \A u \in Actors : u # t => job'[u] = job[u]
    BY <1>0, <1>10 DEF Dispatch, Jobs
  <2>5. \A u \in Threads : Calling(u, k)' => u # t /\ job'[u] = job[u] /\ Calling(u, k)
    BY <1>0, <2>4 DEF Calling
  <2>6. CASE m # k
    BY <1>f, <2>1, <2>2, <2>5, <2>6
  <2>7. CASE m = k
    <3>1. /\ Calling(t, k) /\ c = target[k] /\ q = QueueOf(k)
          /\ \A u \in Threads : ~Calling(u, k)'
      BY <1>h, <2>1, <2>5, <2>7 DEF Once, Calling
    <3>2. \A d \in Clients, p \in Queues : running[d][p] # k /\ k \notin Range(queue[d][p])
      BY <1>h, <3>1 DEF Once
    <3>3. Posted(c, q, m)[c][q] = Append(queue[c][q], m) /\ queue[c][q] \in Seq(Ops)
          /\ \A d \in Clients, p \in Queues : d # c \/ p # q =>
               Posted(c, q, m)[d][p] = queue[d][p]
      <4> HIDE DEF c, m, q
      <4>1. queue[c][q] \in Seq(Ops)
        BY <2>1, QueueType
      <4>2. Posted(c, q, m)[c][q] = Append(queue[c][q], m)
        BY <2>1, <2>3, PostedIs
      <4>3. \A d \in Clients, p \in Queues : d # c \/ p # q =>
               Posted(c, q, m)[d][p] = queue[d][p]
        BY <2>1, PostedIs
      <4> QED BY <4>1, <4>2, <4>3
    <3>4. OnceIn(Append(queue[c][q], m), k)
      BY <1>q, <2>1, <2>7, <3>2, <3>3, PutOnce
    <3>5. answers[k] = 0
      BY <1>h, <3>1 DEF Once
    <3> HIDE DEF c, m, q
    <3>6. \A d \in Clients, p \in Queues : OnceIn(queue'[d][p], k)
      BY <1>q, <2>1, <2>2, <3>3, <3>4
    <3>7. \A d \in Clients, p \in Queues : k \in Range(queue'[d][p]) => d = c /\ p = q
      BY <2>1, <2>2, <3>2, <3>3
    <3> QED BY <1>0, <2>2, <3>1, <3>2, <3>5, <3>6, <3>7 DEF Once, Goal
  <2> QED BY <2>6, <2>7
<1>11. ASSUME NEW t \in Threads, Return(t) PROVE Goal
  <2>1. IdleJob \in Jobs /\ job[t].ctx \in Clients \cup {None} /\ t \in Actors
        /\ IdleJob.at # "calling"
    BY <1>0, <1>11, JobType DEF IdleJob, Jobs, Stages, Return
  <2> QED BY <1>b, <1>d, <1>11, <2>1 DEF Return
<1>12. ASSUME NEW t \in Threads, PostToReaper(t) PROVE Goal
  <2>1. IdleJob.at # "calling" /\ job' = [job EXCEPT ![t] = IdleJob]
    BY <1>12 DEF PostToReaper, IdleJob
  <2> QED BY <1>0, <1>b, <1>c, <1>12, <2>1 DEF PostToReaper
<1>13. CASE ReaperReset
  <2>1. Head(reaperQueue) \in Task
    BY <1>13, Taken, TaskType DEF ReaperReset
  <2> DEFINE next == [at |-> "answering", ctx |-> None, id |-> Head(reaperQueue).id]
  <2>2. next \in Jobs /\ Head(reaperQueue).ctx \in Clients \cup {None}
        /\ next.at # "calling"
    BY <2>1 DEF Task, Jobs, Stages, Ports
  <2>3. Drop(Reaper, Head(reaperQueue).ctx, Tail(reaperQueue), next)
    BY <1>13 DEF ReaperReset
  <2> HIDE DEF next
  <2>4. \A u \in Threads : Calling(u, k)' => job'[u] = job[u]
    BY <1>d, <2>2, <2>3, Names
  <2> QED BY <1>b, <1>13, <2>4 DEF ReaperReset
<1>14. CASE ReaperAnswer
  <2>1. IdleJob.at # "calling" /\ job' = [job EXCEPT ![Reaper] = IdleJob]
    BY <1>14 DEF ReaperAnswer, IdleJob
  <2>2. answers'[k] = answers[k]
    <3>1. job[Reaper].id \notin Calls
      BY Names DEF Carrying
    <3> QED BY <1>0, <1>14, <3>1 DEF ReaperAnswer
  <2> QED BY <1>b, <1>c, <1>14, <2>1, <2>2, Names DEF ReaperAnswer
<1>15. ASSUME NEW c \in Clients, OperationsJoined(c) PROVE Goal
  BY <1>b, <1>e, <1>15 DEF OperationsJoined
<1>16. ASSUME NEW c \in Clients, CoverJoined(c) PROVE Goal
  <2>1. \A u \in Threads : job'[u] = job[u] \/ job'[u].at = "idle"
    BY <1>0, <1>16 DEF CoverJoined, IdleJob
  <2>2. \A u \in Threads : Calling(u, k)' => job'[u] = job[u]
    BY <2>1 DEF Calling
  <2> QED BY <1>b, <1>16, <2>2 DEF CoverJoined
<1>17. ASSUME NEW c \in Clients, NEW q \in Queues, Take(c, q) PROVE Goal
  <2> DEFINE s == queue[c][q]
  <2>1. /\ s \in Seq(Ops) /\ s # <<>> /\ OnceIn(s, k)
        /\ Range(Tail(s)) \subseteq Range(s) /\ Head(s) \in Range(s)
    BY <1>17, <1>q, QueueType, Taken DEF Take
  <2>2. OnceIn(Tail(s), k) /\ (Head(s) = k => k \notin Range(Tail(s)))
    BY <2>1, TakenOnce
  <2>3. queue'[c][q] = Tail(s) /\ running'[c][q] = Head(s)
        /\ \A d \in Clients, p \in Queues : d # c \/ p # q =>
             running'[d][p] = running[d][p] /\ queue'[d][p] = queue[d][p]
    BY <1>17 DEF Take, TypeOK
  <2>4. target' = target /\ answers' = answers /\ job' = job
    BY <1>17 DEF Take
  <2>5. \A t \in Threads : Calling(t, k)' <=> Calling(t, k)
    BY <2>4 DEF Calling
  <2> HIDE DEF s
  <2>6. CASE Head(s) = k
    <3>1. /\ c = target[k] /\ q = QueueOf(k) /\ answers[k] = 0
          /\ \A t \in Threads : ~Calling(t, k)
      <4>1. k \in Range(queue[c][q])
        BY <2>1, <2>6 DEF s
      <4> QED BY <1>h, <4>1 DEF Once
    <3>2. \A d \in Clients, p \in Queues : k \notin Range(queue'[d][p])
      <4>1. \A d \in Clients, p \in Queues : k \in Range(queue[d][p]) => d = c /\ p = q
        BY <1>h, <3>1 DEF Once
      <4>2. k \notin Range(queue'[c][q])
        BY <2>2, <2>3, <2>6
      <4> QED BY <2>3, <4>1, <4>2
    <3>3. \A d \in Clients, p \in Queues : OnceIn(queue'[d][p], k)
      BY <1>q, <2>2, <2>3
    <3>4. \A d \in Clients, p \in Queues : running'[d][p] = k => d = c /\ p = q
      BY <1>h, <2>3, <3>1 DEF Once
    <3> QED BY <2>4, <2>5, <3>1, <3>2, <3>3, <3>4 DEF Once, Goal
  <2>7. CASE Head(s) # k
    <3>1. \A d \in Clients, p \in Queues :
            /\ running'[d][p] = k => running[d][p] = k
            /\ k \in Range(queue'[d][p]) => k \in Range(queue[d][p])
            /\ OnceIn(queue'[d][p], k)
      BY <1>q, <2>1, <2>2, <2>3, <2>7 DEF s
    <3> QED BY <1>a, <1>e, <2>4, <3>1
  <2> QED BY <2>6, <2>7
<1>18. ASSUME NEW c \in Clients, NEW q \in Queues, FinishCall(c, q) PROVE Goal
  <2> DEFINE m == running[c][q]
  <2>1. /\ m \in Calls /\ m \in Ports /\ answers' = [answers EXCEPT ![m] = @ + 1]
        /\ target' = target /\ queue' = queue /\ job' = job
        /\ running' = [running EXCEPT ![c][q] = None]
    BY <1>18 DEF FinishCall, Ports
  <2>2. running'[c][q] = None /\ \A d \in Clients, p \in Queues : d # c \/ p # q =>
             running'[d][p] = running[d][p]
    BY <1>0, <2>1
  <2>3. CASE m = k
    <3>1. /\ c = target[k] /\ q = QueueOf(k) /\ answers[k] = 0
          /\ \A t \in Threads : ~Calling(t, k)
          /\ \A d \in Clients, p \in Queues : k \notin Range(queue[d][p])
      BY <1>h, <2>3 DEF Once
    <3>2. \A d \in Clients, p \in Queues : running'[d][p] # k
      BY <1>0, <1>h, <2>2, <3>1 DEF Once
    <3>3. answers'[k] = 1 /\ target'[k] = c
      BY <1>0, <2>1, <2>3, <3>1
    <3>4. \A t \in Threads : ~Calling(t, k)'
      BY <2>1, <3>1 DEF Calling
    <3> QED BY <1>0, <1>q, <2>1, <3>1, <3>2, <3>3, <3>4 DEF Once, Goal
  <2>4. CASE m # k
    <3>1. answers'[k] = answers[k]
      BY <1>0, <2>1, <2>4
    <3>2. \A d \in Clients, p \in Queues : running'[d][p] = k => running[d][p] = k
      BY <1>0, <2>2
    <3> QED BY <1>a, <1>e, <1>q, <2>1, <3>1, <3>2
  <2> QED BY <2>3, <2>4
<1>19. ASSUME NEW c \in Clients, FinishRemoved(c) PROVE Goal
  <2>1. \A d \in Clients, p \in Queues : running'[d][p] = k => running[d][p] = k
    BY <1>0, <1>19 DEF FinishRemoved
  <2> QED BY <1>0, <1>e, <1>f, <1>19, <2>1, Names DEF FinishRemoved
<1>20. ASSUME NEW c \in Clients, FinishCoverWork(c) PROVE Goal
  <2>1. \A d \in Clients, p \in Queues : running'[d][p] = k => running[d][p] = k
    BY <1>0, <1>20 DEF FinishCoverWork
  <2> QED BY <1>a, <1>e, <1>q, <1>20, <2>1 DEF FinishCoverWork
<1>21. ASSUME NEW c \in Clients, NEW q \in Queues, NEW op \in Ops, Signal(c, q, op)
      PROVE  Goal
  <2>1. op # k
    BY <1>0, <1>21 DEF Signal
  <2> QED BY <1>e, <1>f, <1>21, <2>1 DEF Signal
<1>22. CASE UNCHANGED vars
  BY <1>b, <1>e, <1>22 DEF vars
<1> QED
  BY <1>2, <1>3, <1>4, <1>5, <1>6, <1>7, <1>8, <1>9, <1>10, <1>11, <1>12, <1>13,
     <1>14, <1>15, <1>16, <1>17, <1>18, <1>19, <1>20, <1>21, <1>22
  DEF Next, Entry, Progress, Work, Quiescent

----------------------------------------------------------------------------
(* The contract                                                            *)

\* A call as ClientContract sees it.
Status(k) == IF target[k] = None THEN "unused"
             ELSE IF answers[k] = 0 THEN "accepted" ELSE "answered"

\* What a step may do to one call: nothing, or answer it.
LEMMA Stutters ==
    ASSUME \A c \in Clients : Seen(c)' = Seen(c),
           \A k \in Calls : target'[k] = target[k] /\ Status(k)' = Status(k)
    PROVE  UNCHANGED Contract!vars
BY DEF Contract!vars, Status

\* A client that a step takes from one stage to another, and the calls it spares.
LEMMA Opens ==
    ASSUME NEW c \in Clients, Seen(c) = "absent", Seen(c)' = "open",
           \A d \in Clients : d # c => Seen(d)' = Seen(d), target' = target, answers' = answers
    PROVE  Contract!Next
<1>1. Contract!Open(c)
  BY DEF Contract!Open
<1> QED BY <1>1 DEF Contract!Next

LEMMA Retires ==
    ASSUME NEW c \in Clients, Seen(c) = "open", Seen(c)' = "retired",
           \A d \in Clients : d # c => Seen(d)' = Seen(d),
           \A k \in Calls : target'[k] = target[k] /\ Status(k)' = Status(k)
    PROVE  Contract!Next
<1>1. Contract!Retire(c)
  BY DEF Contract!Retire, Status
<1> QED BY <1>1 DEF Contract!Next

LEMMA Forgets ==
    ASSUME NEW c \in Clients, Seen(c) = "retired", Seen(c)' = "gone",
           \A d \in Clients : d # c => Seen(d)' = Seen(d), target' = target, answers' = answers,
           \A k \in Calls : target[k] = c => answers[k] # 0
    PROVE  Contract!Next
<1>1. \A k \in Calls : target[k] = c => Status(k) = "answered"
  BY Names DEF Status
<1>2. Contract!Forget(c)
  BY <1>1 DEF Contract!Forget, Status
<1> QED BY <1>2 DEF Contract!Next

\* A call that a step accepts, refuses or answers, and the clients it spares.
LEMMA Accepts ==
    ASSUME NEW k \in Calls, NEW c \in Clients, Seen(c) = "open",
           Status(k) = "unused", Status(k)' = "accepted",
           target' = [target EXCEPT ![k] = c], answers' = answers,
           \A d \in Clients : Seen(d)' = Seen(d), TypeOK
    PROVE  Contract!Next
<1>1. Contract!Accept(k, c)
  BY DEF Contract!Accept, Status, TypeOK, Ports
<1> QED BY <1>1 DEF Contract!Next

LEMMA Refuses ==
    ASSUME NEW k \in Calls, NEW c \in Clients, Seen(c) \in {"retired", "gone"},
           Status(k) = "unused", Status(k)' = "answered",
           target' = [target EXCEPT ![k] = c], answers' = [answers EXCEPT ![k] = @ + 1],
           \A d \in Clients : Seen(d)' = Seen(d), TypeOK
    PROVE  Contract!Next
<1>1. Contract!Refuse(k, c)
  BY DEF Contract!Refuse, Status, TypeOK, Ports
<1> QED BY <1>1 DEF Contract!Next

LEMMA Answers ==
    ASSUME NEW k \in Calls, Status(k) = "accepted", Status(k)' = "answered",
           target' = target, \A m \in Calls : m # k => answers'[m] = answers[m],
           \A d \in Clients : Seen(d)' = Seen(d)
    PROVE  Contract!Next
<1>1. Contract!Answer(k)
  BY DEF Contract!Answer, Status
<1> QED BY <1>1 DEF Contract!Next

\* A context that loses its last reference was live and is not in the registry,
\* so its caller goes on seeing a retired client.
LEMMA DropSeen ==
    ASSUME TypeOK, Referenced, NEW a \in Actors, NEW c \in Clients \cup {None},
           NEW next \in Jobs, NEW pending, Drop(a, c, pending, next),
           c # None => phase[c] = "live", clients' = clients
    PROVE  \A d \in Clients : Seen(d)' = Seen(d)
<1>1. CASE phase' = phase
  BY <1>1 DEF Seen
<1>2. CASE /\ c \in Clients /\ ~OtherReference(a, c, pending) /\ phase'[c] = "stopOperations"
           /\ \A d \in Clients \ {c} : phase'[d] = phase[d]
  <2>1. c \notin clients /\ phase[c] = "live"
    BY <1>2, Names DEF OtherReference
  <2> QED BY <1>2, <2>1 DEF Seen
<1> QED BY <1>1, <1>2, DropIs

\* Every step is a step of the contract, or leaves it as it is.
LEMMA ContractStep ==
    ASSUME IInv, [Next]_vars PROVE Contract!Next \/ UNCHANGED Contract!vars
<1> DEFINE Goal == Contract!Next \/ UNCHANGED Contract!vars
<1> SUFFICES Goal
  OBVIOUS
<1>0. /\ TypeOK /\ Referenced /\ Creating /\ Carrying /\ Joined /\ DueIsLocated /\ InOnePlace
      /\ Threads \subseteq Actors /\ Reaper \in Actors /\ Calls \subseteq Ports /\ None \notin Clients
      /\ phase \in [Clients -> Phases] /\ clients \subseteq Clients /\ handles \subseteq Clients
      /\ target \in [Ports -> Clients \cup {None}] /\ answers \in [Ports -> Nat]
      /\ job \in [Actors -> Jobs]
  BY Names DEF IInv, TypeOK, Ports
<1>a. ASSUME \A c \in Clients : Seen(c)' = Seen(c), target' = target, answers' = answers
      PROVE  Goal
  BY <1>a, Stutters DEF Status
<1>b. ASSUME phase' = phase, clients' = clients, target' = target, answers' = answers
      PROVE  Goal
  BY <1>a, <1>b DEF Seen
<1>u. \A k \in Calls : target[k] = None => answers[k] = 0
  BY <1>0 DEF InOnePlace, Once
<1>l. \A c \in clients : phase[c] = "live"
  BY <1>0 DEF Referenced
<1>s. \A k \in Calls : Status(k)' =
        IF target'[k] = None THEN "unused"
        ELSE IF answers'[k] = 0 THEN "accepted" ELSE "answered"
  BY DEF Status
<1> HIDE DEF Goal
<1>1. ASSUME NEW c \in Clients, CreateClient(c) PROVE Goal
  <2>1. Seen(c) = "absent" /\ Seen(c)' = "open" /\ target' = target /\ answers' = answers
    BY <1>0, <1>1 DEF CreateClient, Seen
  <2>2. \A d \in Clients : d # c => Seen(d)' = Seen(d)
    BY <1>0, <1>1 DEF CreateClient, Seen
  <2> QED BY <2>1, <2>2, Opens DEF Goal
<1>2. CASE CreateDelivered
  BY <1>b, <1>2 DEF CreateDelivered
<1>3. CASE CreateRefused
  <2>1. PICK c \in Clients : c = job[Connections].ctx /\ c \in clients
    BY <1>0, <1>3 DEF CreateRefused, Creating
  <2>2. clients' = clients \ {c} /\ phase' = [phase EXCEPT ![c] = "stopOperations"]
        /\ target' = target /\ answers' = answers
    BY <1>3, <2>1 DEF CreateRefused
  <2>3. Seen(c) = "open" /\ Seen(c)' = "retired"
    BY <1>0, <1>l, <2>1, <2>2 DEF Seen
  <2>4. \A d \in Clients : d # c => Seen(d)' = Seen(d)
    BY <1>0, <2>1, <2>2 DEF Seen
  <2>5. \A k \in Calls : target'[k] = target[k] /\ Status(k)' = Status(k)
    BY <2>2 DEF Status
  <2> QED BY <2>1, <2>3, <2>4, <2>5, Retires DEF Goal
<1>4. ASSUME NEW t \in Threads, NEW c \in Clients, NEW k \in Calls, StartCall(t, k, c)
      PROVE  Goal
  <2>1. c \in clients /\ target[k] = None /\ target' = [target EXCEPT ![k] = c]
        /\ answers' = answers /\ phase' = phase /\ clients' = clients
    BY <1>4 DEF StartCall
  <2>2. Seen(c) = "open" /\ \A d \in Clients : Seen(d)' = Seen(d)
    BY <1>l, <2>1 DEF Seen
  <2>3. Status(k) = "unused" /\ target'[k] = c /\ answers'[k] = 0
    BY <1>0, <1>u, <2>1 DEF Status
  <2>4. Status(k)' = "accepted"
    BY <1>0, <1>s, <2>3
  <2> QED BY <1>0, <2>1, <2>2, <2>3, <2>4, Accepts DEF Goal
<1>5. ASSUME NEW t \in Threads, NEW c \in Clients, NEW k \in Calls, RejectCall(t, k, c)
      PROVE  Goal
  <2>1. c \in handles /\ c \notin clients /\ target[k] = None
        /\ target' = [target EXCEPT ![k] = c] /\ answers' = [answers EXCEPT ![k] = @ + 1]
        /\ phase' = phase /\ clients' = clients
    BY <1>5 DEF RejectCall
  <2>2. Seen(c) \in {"retired", "gone"} /\ \A d \in Clients : Seen(d)' = Seen(d)
    BY <1>0, <2>1 DEF Seen, Creating
  <2>3. Status(k) = "unused" /\ target'[k] = c /\ answers'[k] = 1
    BY <1>0, <1>u, <2>1 DEF Status
  <2>4. Status(k)' = "answered"
    BY <1>0, <1>s, <2>3
  <2> QED BY <1>0, <2>1, <2>2, <2>3, <2>4, Refuses DEF Goal
<1>r. ASSUME NEW t \in Threads, NEW c \in Clients, NEW d \in Closes \cup {None},
             Retire(t, c, d), \A k \in Calls : target'[k] = target[k]
      PROVE  Goal
  <2>1. clients' = clients \ {c} /\ phase' = phase /\ answers' = answers
    BY <1>r DEF Retire
  <2>2. \A k \in Calls : Status(k)' = Status(k)
    BY <1>r, <2>1 DEF Status
  <2>3. CASE c \in clients
    <3>1. Seen(c) = "open" /\ Seen(c)' = "retired"
      BY <1>l, <2>1, <2>3 DEF Seen
    <3>2. \A e \in Clients : e # c => Seen(e)' = Seen(e)
      BY <2>1 DEF Seen
    <3> QED BY <1>r, <2>2, <3>1, <3>2, Retires DEF Goal
  <2>4. CASE c \notin clients
    <3>1. clients' = clients
      BY <2>1, <2>4
    <3>2. \A e \in Clients : Seen(e)' = Seen(e)
      BY <2>1, <3>1 DEF Seen
    <3> QED BY <1>r, <2>2, <3>2, Stutters DEF Goal
  <2> QED BY <2>3, <2>4
<1>6. ASSUME NEW t \in Threads, NEW c \in Clients, NEW d \in Closes, DestroyAsync(t, d, c)
      PROVE  Goal
  <2>1. \A k \in Calls : target'[k] = target[k]
    BY <1>0, <1>6, ClientAssumption DEF DestroyAsync
  <2> QED BY <1>6, <1>r, <2>1 DEF DestroyAsync
<1>7. ASSUME NEW t \in Threads, NEW c \in Clients, StartSync(t, c) PROVE Goal
  BY <1>7, <1>b DEF StartSync
<1>8. ASSUME NEW t \in Threads, NEW c \in Clients, Destroy(t, c) PROVE Goal
  BY <1>8, <1>r DEF Destroy
<1>9. ASSUME NEW t \in Threads, Dispatch(t) PROVE Goal
  BY <1>9, <1>b DEF Dispatch
<1>10. ASSUME NEW t \in Threads, Return(t) PROVE Goal
  <2>1. IdleJob \in Jobs /\ job[t].ctx \in Clients \cup {None} /\ t \in Actors
    BY <1>0, JobType DEF IdleJob, Jobs, Stages
  <2>2. job[t].ctx # None => phase[job[t].ctx] = "live"
    BY <1>0, <1>10, <2>1 DEF Return, Referenced, Holds, Holding
  <2>3. \A d \in Clients : Seen(d)' = Seen(d)
    BY <1>0, <1>10, <2>1, <2>2, DropSeen DEF Return
  <2> QED BY <1>a, <1>10, <2>3 DEF Return
<1>11. ASSUME NEW t \in Threads, PostToReaper(t) PROVE Goal
  BY <1>11, <1>b DEF PostToReaper
<1>12. CASE ReaperReset
  <2>1. Head(reaperQueue) \in Task /\ Head(reaperQueue) \in Range(reaperQueue)
    BY <1>0, <1>12, Taken, TaskType DEF ReaperReset
  <2> DEFINE next == [at |-> "answering", ctx |-> None, id |-> Head(reaperQueue).id]
  <2>2. next \in Jobs /\ Head(reaperQueue).ctx \in Clients \cup {None}
    BY <2>1 DEF Task, Jobs, Stages, Ports
  <2>3. Drop(Reaper, Head(reaperQueue).ctx, Tail(reaperQueue), next)
    BY <1>12 DEF ReaperReset
  <2> HIDE DEF next
  <2>4. Head(reaperQueue).ctx # None => phase[Head(reaperQueue).ctx] = "live"
    BY <1>0, <2>1 DEF Referenced
  <2>5. \A d \in Clients : Seen(d)' = Seen(d)
    BY <1>0, <1>12, <2>2, <2>3, <2>4, DropSeen DEF ReaperReset
  <2> QED BY <1>a, <1>12, <2>5 DEF ReaperReset
<1>13. CASE ReaperAnswer
  <2>1. job[Reaper].id \notin Calls
    BY <1>0 DEF Carrying
  <2>2. \A k \in Calls : answers'[k] = answers[k] /\ target'[k] = target[k]
    BY <1>0, <1>13, <2>1 DEF ReaperAnswer
  <2>3. \A k \in Calls : Status(k)' = Status(k)
    BY <2>2 DEF Status
  <2>4. \A d \in Clients : Seen(d)' = Seen(d)
    BY <1>13 DEF ReaperAnswer, Seen
  <2> QED BY <2>2, <2>3, <2>4, Stutters DEF Goal
<1>14. ASSUME NEW c \in Clients, OperationsJoined(c) PROVE Goal
  <2>1. phase[c] = "stopOperations" /\ phase' = [phase EXCEPT ![c] = "stopCover"]
        /\ clients' = clients /\ target' = target /\ answers' = answers
    BY <1>14 DEF OperationsJoined
  <2>2. c \notin clients
    BY <1>l, <2>1
  <2>3. \A d \in Clients : Seen(d)' = Seen(d)
    BY <1>0, <2>1, <2>2 DEF Seen
  <2> QED BY <1>a, <2>1, <2>3
<1>15. ASSUME NEW c \in Clients, CoverJoined(c) PROVE Goal
  <2>1. phase[c] = "stopCover" /\ phase' = [phase EXCEPT ![c] = "gone"]
        /\ clients' = clients /\ target' = target /\ answers' = answers
        /\ Drained(c, "cover")
    BY <1>15 DEF CoverJoined
  <2>2. c \notin clients
    BY <1>l, <2>1
  <2>3. Seen(c) = "retired" /\ Seen(c)' = "gone"
    BY <1>0, <2>1, <2>2 DEF Seen
  <2>4. \A d \in Clients : d # c => Seen(d)' = Seen(d)
    BY <1>0, <2>1 DEF Seen
  <2>5. ASSUME NEW k \in Calls, target[k] = c PROVE answers[k] # 0
    <3>1. \A q \in Queues : queue[c][q] = <<>> /\ running[c][q] = None
      BY <1>0, <2>1, Names DEF Joined, Drained
    <3>2. \A t \in Threads : job[t].at = "calling" => job[t].ctx # c
      BY <1>0, <2>1 DEF Referenced, Holds, Holding
    <3>3. QueueOf(k) \in Queues /\ k # None
      BY Names DEF QueueOf
    <3>4. k \notin Range(queue[c][QueueOf(k)])
      BY <3>1, <3>3 DEF Range
    <3>5. ~Located(k, c)
      BY <3>1, <3>2, <3>3, <3>4 DEF Located
    <3> QED BY <1>0, <2>5, <3>5 DEF DueIsLocated
  <2> QED BY <2>1, <2>3, <2>4, <2>5, Forgets DEF Goal
<1>16. ASSUME NEW c \in Clients, NEW q \in Queues, Take(c, q) PROVE Goal
  BY <1>16, <1>b DEF Take
<1>17. ASSUME NEW c \in Clients, NEW q \in Queues, FinishCall(c, q) PROVE Goal
  <2>0. PICK k \in Calls : k = running[c][q]
    BY <1>17 DEF FinishCall
  <2>1. /\ answers' = [answers EXCEPT ![k] = @ + 1] /\ target' = target
        /\ phase' = phase /\ clients' = clients
    BY <1>17, <2>0 DEF FinishCall
  <2>2. target[k] = c /\ answers[k] = 0
    BY <1>0, <2>0 DEF InOnePlace, Once
  <2>3. answers'[k] = 1 /\ \A m \in Calls : m # k => answers'[m] = answers[m]
    BY <1>0, <2>1, <2>2
  <2>4. Status(k) = "accepted"
    BY <1>0, <2>2 DEF Status
  <2>5. Status(k)' = "answered"
    BY <1>0, <2>1, <2>2, <2>3 DEF Status
  <2>6. \A d \in Clients : Seen(d)' = Seen(d)
    BY <2>1 DEF Seen
  <2> QED BY <2>1, <2>3, <2>4, <2>5, <2>6, Answers DEF Goal
<1>18. ASSUME NEW c \in Clients, FinishRemoved(c) PROVE Goal
  BY <1>18, <1>b DEF FinishRemoved
<1>19. ASSUME NEW c \in Clients, FinishCoverWork(c) PROVE Goal
  BY <1>19, <1>b DEF FinishCoverWork
<1>20. ASSUME NEW c \in Clients, NEW q \in Queues, NEW op \in Ops, Signal(c, q, op)
      PROVE  Goal
  BY <1>20, <1>b DEF Signal
<1>21. CASE UNCHANGED vars
  BY <1>21, <1>b DEF vars
<1> QED
  BY <1>1, <1>2, <1>3, <1>4, <1>5, <1>6, <1>7, <1>8, <1>9, <1>10, <1>11, <1>12, <1>13,
     <1>14, <1>15, <1>16, <1>17, <1>18, <1>19, <1>20, <1>21
  DEF Next, Entry, Progress, Work, Quiescent

----------------------------------------------------------------------------
(* Theorems                                                                *)

LEMMA Start == Init => IInv
<1> SUFFICES ASSUME Init PROVE IInv
  OBVIOUS
<1>0. IdleJob \in Jobs /\ IdleJob.at = "idle"
  BY DEF IdleJob, Jobs, Stages
<1>1. TypeOK
  BY <1>0, ClientAssumption DEF Init, TypeOK, Phases
<1>2. \A a \in Actors : job[a].at = "idle"
  BY <1>0 DEF Init
<1>3. Range(reaperQueue) = {}
  BY DEF Init, Range
<1>4. Referenced
  BY <1>2, <1>3 DEF Init, Referenced, Holds, Holding
<1>5. Creating /\ Carrying
  <2>1. IdleJob.id \notin Calls
    BY Names DEF IdleJob, Ports
  <2> QED BY <1>2, <2>1, Names DEF Init, Creating, Carrying
<1>6. Joined /\ DueIsLocated
  BY DEF Init, Joined, DueIsLocated, Ports
<1>7. InOnePlace
  <2>1. \A t \in Threads, k \in Calls : ~Calling(t, k)
    BY <1>2, Names DEF Calling
  <2>2. \A c \in Clients, q \in Queues : queue[c][q] = <<>> /\ running[c][q] = None
    BY DEF Init
  <2>3. \A k \in Calls : k # None /\ answers[k] = 0
    BY Names DEF Init, Ports
  <2>4. \A k \in Calls : OnceIn(<<>>, k) /\ k \notin Range(<<>>)
    BY DEF OnceIn, Range
  <2> QED BY <2>1, <2>2, <2>3, <2>4 DEF InOnePlace, Once
<1> QED BY <1>1, <1>4, <1>5, <1>6, <1>7 DEF IInv

\* The invariant of references, queues and calls, for every number of clients,
\* threads and calls.
THEOREM Invariant == Spec => []IInv
<1>1. IInv /\ [Next]_vars => IInv'
  BY TypeStep, ReferencedStep, JobStep, JoinedStep, LocatedStep, OnceStep DEF IInv
<1> QED BY Start, <1>1, PTL DEF Spec

\* Every variable keeps its type.
THEOREM TypeCorrect == Spec => []TypeOK
<1>1. IInv => TypeOK
  BY DEF IInv
<1> QED BY Invariant, <1>1, PTL

\* Nothing touches a destroyed context: get_context's shared_ptr keeps it live,
\* and ~BluezMediaClientContext joins both workers before it goes.
THEOREM NothingDangles == Spec => []NoUseAfterDestroy
<1>1. IInv => NoUseAfterDestroy
  BY Names DEF IInv, Referenced, Joined, Drained, NoUseAfterDestroy
<1> QED BY Invariant, <1>1, PTL

\* The cover half of a removal is never dropped: operations stops, and is
\* joined, before cover_operations stops.
THEOREM CoverHalf == Spec => []CoverHalfAccepted
<1>1. IInv => CoverHalfAccepted
  BY DEF IInv, Joined, Drained, Stopping, CoverHalfAccepted
<1> QED BY Invariant, <1>1, PTL

\* A call is neither lost nor answered twice: each port that was used has its
\* message, or its operation waits in one place.
THEOREM Accounts == Spec => []CallAccounted
<1>1. IInv => CallAccounted
  <2> SUFFICES ASSUME IInv, NEW k \in Calls
               PROVE  (IF target[k] = None THEN 0 ELSE 1)
                        = answers[k] + Cardinality(Waiting(k))
    BY DEF CallAccounted
  <2>1. answers[k] \in {0, 1} /\ (target[k] = None => answers[k] = 0)
    BY DEF IInv, InOnePlace, Once
  <2>2. IF target[k] # None /\ answers[k] = 0 THEN \E w : Waiting(k) = {w}
                                               ELSE Waiting(k) = {}
    BY Counted DEF IInv
  <2>3. CASE target[k] # None /\ answers[k] = 0
    <3>1. PICK w : Waiting(k) = {w}
      BY <2>2, <2>3
    <3>2. Cardinality(Waiting(k)) = 1
      BY <3>1, FS_Singleton
    <3> QED BY <2>3, <3>2
  <2>4. CASE ~(target[k] # None /\ answers[k] = 0)
    <3>1. Cardinality(Waiting(k)) = 0
      BY <2>2, <2>4, FS_EmptySet
    <3> QED BY <2>1, <2>4, <3>1
  <2> QED BY <2>3, <2>4
<1> QED BY Invariant, <1>1, PTL

\* The registry, the references and the queues implement the contract, but for
\* its fairness: what a caller sees starts as it does, and takes its steps.
THEOREM Implements == Spec => Contract!Init /\ [][Contract!Next]_(Contract!vars)
<1>1. Init => Contract!Init
  <2> SUFFICES ASSUME Init PROVE Contract!Init
    OBVIOUS
  <2>1. \A c \in Clients : Seen(c) = "absent"
    BY DEF Init, Seen
  <2>2. \A k \in Calls : target[k] = None
    BY DEF Init, Ports
  <2> QED BY <2>1, <2>2 DEF Contract!Init
<1>2. IInv /\ [Next]_vars => [Contract!Next]_(Contract!vars)
  BY ContractStep
<1> QED BY Invariant, <1>1, <1>2, PTL DEF Spec

=============================================================================
