-------------------------- MODULE ClientLifecycle --------------------------
(***************************************************************************)
(* The life of a native client: the process-wide ClientRegistry, the       *)
(* shared_ptr that keeps a BluezMediaClientContext alive, its two          *)
(* single-worker OperationQueues, and the reaper that destroys it.         *)
(* (native/src/bluez_media_client.cpp)                                     *)
(*                                                                         *)
(* A context is identified with its handle: next_handle only grows, so a   *)
(* handle is never given to a second context.  A call or a close request   *)
(* is identified with its result port.                                     *)
(***************************************************************************)
EXTENDS Naturals, Sequences, FiniteSets

CONSTANTS
    Clients,      \* handles
    Threads,      \* threads that enter the C ABI (isolates, finalizers)
    Calls,        \* result ports of asynchronous calls
    CoverCalls,   \* the calls dispatch_async sends to cover_operations
    Closes,       \* result ports of bluez_media_client_destroy_async
    Reaper,       \* worker of registry().reaper
    Connections,  \* worker of registry().connections
    Removed,      \* work posted by the object-removed callback
    CoverWork,    \* register, unregister, reset or reconnect of cover art
    None,
    MaxSignals    \* bound on the posts made by event-loop callbacks

ASSUME ClientAssumption ==
    /\ CoverCalls \subseteq Calls
    /\ Calls \cap Closes = {}
    /\ {Removed, CoverWork, None} \cap (Calls \cup Closes) = {}
    /\ Removed # CoverWork
    /\ None \notin {Removed, CoverWork} \cup Clients
    /\ Reaper # Connections
    /\ {Reaper, Connections} \cap Threads = {}
    /\ MaxSignals \in Nat

VARIABLES
    clients,      \* ClientRegistry::clients
    handles,      \* handles a caller was given
    phase,        \* how far construction and destruction of a context got
    queue,        \* OperationQueue::operations_ of both queues of a context
    running,      \* the operation each worker is executing
    job,          \* what each thread is doing, and the shared_ptr it holds
    reaperQueue,  \* the reaper's pending work: a context to reset, a port
    answers,      \* messages posted on each result port
    target,       \* the handle each port was used with
    signals       \* posts made by event-loop callbacks so far

vars == <<clients, handles, phase, queue, running, job, reaperQueue, answers,
          target, signals>>

Queues  == {"operations", "cover"}
Ports   == Calls \cup Closes
Ops     == Calls \cup {Removed, CoverWork}
Actors  == Threads \cup {Reaper, Connections}
Phases  == {"absent", "live", "stopOperations", "stopCover", "gone"}
Stages  == {"idle", "created", "calling", "returning", "sync", "retired",
            "destroying", "answering"}
Jobs    == [at : Stages, ctx : Clients \cup {None}, id : Ports \cup {None}]
IdleJob == [at |-> "idle", ctx |-> None, id |-> None]

TypeOK ==
    /\ clients \subseteq Clients
    /\ handles \subseteq Clients
    /\ phase \in [Clients -> Phases]
    /\ queue \in [Clients -> [Queues -> Seq(Ops)]]
    /\ running \in [Clients -> [Queues -> Ops \cup {None}]]
    /\ job \in [Actors -> Jobs]
    /\ reaperQueue \in Seq([ctx : Clients \cup {None}, id : Closes \cup {None}])
    /\ answers \in [Ports -> Nat]
    /\ target \in [Ports -> Clients \cup {None}]
    /\ signals \in 0..MaxSignals

Init ==
    /\ clients = {}
    /\ handles = {}
    /\ phase = [c \in Clients |-> "absent"]
    /\ queue = [c \in Clients |-> [q \in Queues |-> <<>>]]
    /\ running = [c \in Clients |-> [q \in Queues |-> None]]
    /\ job = [a \in Actors |-> IdleJob]
    /\ reaperQueue = <<>>
    /\ answers = [p \in Ports |-> 0]
    /\ target = [p \in Ports |-> None]
    /\ signals = 0

----------------------------------------------------------------------------
(* References and queues                                                   *)

\* The stages in which a thread's frame owns a shared_ptr to job.ctx.
Holding == {"calling", "returning", "sync", "retired"}

Holds(a, c) == job[a].at \in Holding /\ job[a].ctx = c

\* Fault: a thread's own reference counts as somebody else's (a leak).
OtherReference_Leak(a, c, pending) ==
    c \in clients \/ \E b \in Actors : Holds(b, c)

\* Fault: get_context returns a bare pointer, no reference.
OtherReference_Bare(a, c, pending) == c \in clients

\* A shared_ptr to c other than the one actor a (or the reaper's task) drops.
OtherReference(a, c, pending) ==
    \/ c \in clients
    \/ \E b \in Actors \ {a} : Holds(b, c)
    \/ \E i \in DOMAIN pending : pending[i].ctx = c

\* shared_ptr::reset by actor a: the last owner runs ~BluezMediaClientContext,
\* which first sets operations.stopping_; otherwise a goes on with `next`.
Drop(a, c, pending, next) ==
    IF c = None \/ OtherReference(a, c, pending)
    THEN /\ job' = [job EXCEPT ![a] = next]
         /\ UNCHANGED phase
    ELSE /\ job' = [job EXCEPT ![a] = [next EXCEPT !.at = "destroying",
                                                   !.ctx = c]]
         /\ phase' = [phase EXCEPT ![c] = "stopOperations"]

\* Fault: the destroyer stops both queues before it joins either.
Stopping_Together(c, q) == phase[c] # "live"

\* Fault: retiring a handle already stops its queues.
Stopping_AtRetire(c, q) == c \notin clients

\* OperationQueue::stopping_: operations stops before cover_operations.
Stopping(c, q) ==
    IF q = "operations" THEN phase[c] # "live"
                        ELSE phase[c] \in {"stopCover", "gone"}

\* OperationQueue::post: the work is dropped once the queue is stopping.
Posted(c, q, op) ==
    IF Stopping(c, q) THEN queue
    ELSE [queue EXCEPT ![c][q] = Append(@, op)]

QueueOf(call) == IF call \in CoverCalls THEN "cover" ELSE "operations"

\* Fault: the destroyer looks at the queue instead of joining the worker.
Drained_NoJoin(c, q) == queue[c][q] = <<>>

\* OperationQueue::run has returned: join() does not block any more.
Drained(c, q) == queue[c][q] = <<>> /\ running[c][q] = None

----------------------------------------------------------------------------
(* Creation, on the connections worker                                     *)

\* create_context succeeded and register_context published the handle.
CreateClient(c) ==
    /\ job[Connections].at = "idle"
    /\ phase[c] = "absent"
    /\ phase' = [phase EXCEPT ![c] = "live"]
    /\ clients' = clients \cup {c}
    /\ job' = [job EXCEPT ![Connections] =
                 [at |-> "created", ctx |-> c, id |-> None]]
    /\ UNCHANGED <<handles, queue, running, reaperQueue, answers, target,
                   signals>>

\* Dart_PostCObject_DL delivered the handle.
CreateDelivered ==
    /\ job[Connections].at = "created"
    /\ handles' = handles \cup {job[Connections].ctx}
    /\ job' = [job EXCEPT ![Connections] = IdleJob]
    /\ UNCHANGED <<clients, phase, queue, running, reaperQueue, answers,
                   target, signals>>

\* The result port was closed: retire_context, and its result dies here.
CreateRefused ==
    LET c == job[Connections].ctx IN
    /\ job[Connections].at = "created"
    /\ clients' = clients \ {c}
    /\ phase' = [phase EXCEPT ![c] = "stopOperations"]
    /\ job' = [job EXCEPT ![Connections].at = "destroying"]
    /\ UNCHANGED <<handles, queue, running, reaperQueue, answers, target,
                   signals>>

----------------------------------------------------------------------------
(* The C ABI                                                               *)

\* bluez_media_call_async: get_context found the client and copied its
\* shared_ptr.
StartCall(t, k, c) ==
    /\ job[t].at = "idle"
    /\ c \in handles /\ c \in clients
    /\ target[k] = None
    /\ target' = [target EXCEPT ![k] = c]
    /\ job' = [job EXCEPT ![t] = [at |-> "calling", ctx |-> c, id |-> k]]
    /\ UNCHANGED <<clients, handles, phase, queue, running, reaperQueue,
                   answers, signals>>

\* bluez_media_call_async on a retired handle: INVALID_ARGUMENT is posted.
RejectCall(t, k, c) ==
    /\ job[t].at = "idle"
    /\ c \in handles /\ c \notin clients
    /\ target[k] = None
    /\ target' = [target EXCEPT ![k] = c]
    /\ answers' = [answers EXCEPT ![k] = @ + 1]
    /\ UNCHANGED <<clients, handles, phase, queue, running, job, reaperQueue,
                   signals>>

\* dispatch_async posts the operation, which captures a raw context pointer.
Dispatch(t) ==
    /\ job[t].at = "calling"
    /\ queue' = Posted(job[t].ctx, QueueOf(job[t].id), job[t].id)
    /\ job' = [job EXCEPT ![t].at = "returning"]
    /\ UNCHANGED <<clients, handles, phase, running, reaperQueue, answers,
                   target, signals>>

\* A synchronous entry point: get_context, then a blocking D-Bus call.
StartSync(t, c) ==
    /\ job[t].at = "idle"
    /\ c \in handles /\ c \in clients
    /\ job' = [job EXCEPT ![t] = [at |-> "sync", ctx |-> c, id |-> None]]
    /\ UNCHANGED <<clients, handles, phase, queue, running, reaperQueue,
                   answers, target, signals>>

\* An entry point returns: its local shared_ptr goes out of scope.
Return(t) ==
    /\ job[t].at \in {"returning", "sync"}
    /\ Drop(t, job[t].ctx, reaperQueue, IdleJob)
    /\ UNCHANGED <<clients, handles, queue, running, reaperQueue, answers,
                   target, signals>>

\* retire_context moves the registry's shared_ptr into the caller's frame.
Retire(t, c, id) ==
    /\ job[t].at = "idle"
    /\ c \in handles
    /\ clients' = clients \ {c}
    /\ job' = [job EXCEPT ![t] =
                 [at |-> "retired",
                  ctx |-> IF c \in clients THEN c ELSE None, id |-> id]]
    /\ UNCHANGED <<handles, phase, queue, running, reaperQueue, answers,
                   signals>>

\* bluez_media_client_destroy_async.
DestroyAsync(t, d, c) ==
    /\ target[d] = None
    /\ target' = [target EXCEPT ![d] = c]
    /\ Retire(t, c, d)

\* bluez_media_client_destroy, the client's native finalizer.  An unknown
\* handle returns at once.
Destroy(t, c) ==
    /\ c \in clients
    /\ Retire(t, c, None)
    /\ UNCHANGED target

\* registry().reaper.post, which takes the reference over.
PostToReaper(t) ==
    /\ job[t].at = "retired"
    /\ reaperQueue' = Append(reaperQueue, [ctx |-> job[t].ctx, id |-> job[t].id])
    /\ job' = [job EXCEPT ![t] = IdleJob]
    /\ UNCHANGED <<clients, handles, phase, queue, running, answers, target,
                   signals>>

----------------------------------------------------------------------------
(* The reaper                                                              *)

\* Fault: an unknown handle is not reaped, so its close is never reported.
ReaperReset_NullForgotten ==
    LET task == Head(reaperQueue)
    IN /\ job[Reaper].at = "idle"
       /\ reaperQueue # <<>>
       /\ reaperQueue' = Tail(reaperQueue)
       /\ Drop(Reaper, task.ctx, Tail(reaperQueue),
               [at |-> "answering", ctx |-> None,
                id |-> IF task.ctx = None THEN None ELSE task.id])
       /\ UNCHANGED <<clients, handles, queue, running, answers, target,
                      signals>>

\* ctx.reset() of the task at the head.
ReaperReset ==
    LET task == Head(reaperQueue)
    IN /\ job[Reaper].at = "idle"
       /\ reaperQueue # <<>>
       /\ reaperQueue' = Tail(reaperQueue)
       /\ Drop(Reaper, task.ctx, Tail(reaperQueue),
               [at |-> "answering", ctx |-> None, id |-> task.id])
       /\ UNCHANGED <<clients, handles, queue, running, answers, target,
                      signals>>

\* post_status(result_port, SUCCESS); a plain destroy has no port.
ReaperAnswer ==
    LET id == job[Reaper].id IN
    /\ job[Reaper].at = "answering"
    /\ answers' = IF id = None THEN answers ELSE [answers EXCEPT ![id] = @ + 1]
    /\ job' = [job EXCEPT ![Reaper] = IdleJob]
    /\ UNCHANGED <<clients, handles, phase, queue, running, reaperQueue,
                   target, signals>>

----------------------------------------------------------------------------
(* ~BluezMediaClientContext, on the thread that dropped the last reference *)

\* operations.stop() has joined; cover_operations.stop() begins.
OperationsJoined(c) ==
    /\ phase[c] = "stopOperations"
    /\ Drained(c, "operations")
    /\ phase' = [phase EXCEPT ![c] = "stopCover"]
    /\ UNCHANGED <<clients, handles, queue, running, job, reaperQueue,
                   answers, target, signals>>

\* cover_operations.stop() has joined; the members are released, the event
\* loop left, and the thread goes on after the reset.
CoverJoined(c) ==
    /\ phase[c] = "stopCover"
    /\ Drained(c, "cover")
    /\ phase' = [phase EXCEPT ![c] = "gone"]
    /\ job' = [a \in Actors |->
                 IF job[a].at = "destroying" /\ job[a].ctx = c
                 THEN IF a = Reaper
                      THEN [job[a] EXCEPT !.at = "answering", !.ctx = None]
                      ELSE IdleJob
                 ELSE job[a]]
    /\ UNCHANGED <<clients, handles, queue, running, reaperQueue, answers,
                   target, signals>>

----------------------------------------------------------------------------
(* Workers and the event loop of one context                               *)

\* OperationQueue::run pops the front operation.
Take(c, q) ==
    /\ phase[c] \notin {"absent", "gone"}
    /\ running[c][q] = None
    /\ queue[c][q] # <<>>
    /\ running' = [running EXCEPT ![c][q] = Head(queue[c][q])]
    /\ queue' = [queue EXCEPT ![c][q] = Tail(@)]
    /\ UNCHANGED <<clients, handles, phase, job, reaperQueue, answers, target,
                   signals>>

\* A call ends with one message on its port, whatever the D-Bus outcome.
FinishCall(c, q) ==
    /\ running[c][q] \in Calls
    /\ answers' = [answers EXCEPT ![running[c][q]] = @ + 1]
    /\ running' = [running EXCEPT ![c][q] = None]
    /\ UNCHANGED <<clients, handles, phase, queue, job, reaperQueue, target,
                   signals>>

\* Fault: an empty std::function is handed over.
FinishRemoved_Empty(c) ==
    /\ running[c]["operations"] = Removed
    /\ queue' = Posted(c, "cover", None)
    /\ running' = [running EXCEPT ![c]["operations"] = None]
    /\ UNCHANGED <<clients, handles, phase, job, reaperQueue, answers, target,
                   signals>>

\* The removal's operations half hands over to cover_operations.
FinishRemoved(c) ==
    /\ running[c]["operations"] = Removed
    /\ queue' = Posted(c, "cover", CoverWork)
    /\ running' = [running EXCEPT ![c]["operations"] = None]
    /\ UNCHANGED <<clients, handles, phase, job, reaperQueue, answers, target,
                   signals>>

FinishCoverWork(c) ==
    /\ running[c]["cover"] = CoverWork
    /\ running' = [running EXCEPT ![c]["cover"] = None]
    /\ UNCHANGED <<clients, handles, phase, queue, job, reaperQueue, answers,
                   target, signals>>

\* A callback on the event-loop thread posts work: a removed object on
\* operations; a player or an OBEX reconnection straight on cover_operations.
Signal(c, q, op) ==
    /\ <<q, op>> \in {<<"operations", Removed>>, <<"cover", CoverWork>>}
    /\ phase[c] \notin {"absent", "gone"}
    /\ signals < MaxSignals
    /\ signals' = signals + 1
    /\ queue' = Posted(c, q, op)
    /\ UNCHANGED <<clients, handles, phase, running, job, reaperQueue, answers,
                   target>>

----------------------------------------------------------------------------
Entry(t) ==
    \/ \E c \in Clients :
         \/ \E k \in Calls : StartCall(t, k, c) \/ RejectCall(t, k, c)
         \/ \E d \in Closes : DestroyAsync(t, d, c)
         \/ StartSync(t, c)
         \/ Destroy(t, c)

Progress(t) == Dispatch(t) \/ Return(t) \/ PostToReaper(t)

Work(c) ==
    \/ \E q \in Queues : Take(c, q) \/ FinishCall(c, q)
    \/ FinishRemoved(c)
    \/ FinishCoverWork(c)

\* Nothing is under way anywhere; the process waits for its next call.
Quiescent ==
    /\ \A a \in Actors : job[a].at = "idle"
    /\ reaperQueue = <<>>
    /\ \A c \in Clients, q \in Queues : Drained(c, q)
    /\ UNCHANGED vars

Next ==
    \/ \E c \in Clients : CreateClient(c)
    \/ CreateDelivered \/ CreateRefused
    \/ \E t \in Threads : Entry(t) \/ Progress(t)
    \/ ReaperReset \/ ReaperAnswer
    \/ \E c \in Clients : OperationsJoined(c) \/ CoverJoined(c) \/ Work(c)
    \/ \E c \in Clients, q \in Queues, op \in Ops : Signal(c, q, op)
    \/ Quiescent

\* Every thread runs until it blocks; a D-Bus call ends with a reply or its
\* timeout, so an operation that started finishes.
Fairness ==
    /\ WF_vars(CreateDelivered \/ CreateRefused)
    /\ \A t \in Threads : WF_vars(Progress(t))
    /\ WF_vars(ReaperReset \/ ReaperAnswer)
    /\ \A c \in Clients : /\ WF_vars(OperationsJoined(c) \/ CoverJoined(c))
                          /\ \A q \in Queues : WF_vars(Take(c, q))
                          /\ \A q \in Queues : WF_vars(FinishCall(c, q))
                          /\ WF_vars(FinishRemoved(c))
                          /\ WF_vars(FinishCoverWork(c))

Spec == Init /\ [][Next]_vars /\ Fairness

----------------------------------------------------------------------------
(* Properties                                                              *)

\* Nothing touches a destroyed context: a thread that looked a client up owns
\* a live one, and a worker's raw pointer outlives the operation it runs
\* (dispatch_async captures ctx.get(), ~BluezMediaClientContext joins first).
NoUseAfterDestroy ==
    /\ \A a \in Actors, c \in Clients : Holds(a, c) => phase[c] = "live"
    /\ \A c \in Clients, q \in Queues :
         phase[c] = "gone" => running[c][q] = None /\ queue[c][q] = <<>>

\* The places where call k is still waiting to be answered.
Waiting(k) ==
    {<<"calling", t>> : t \in {u \in Threads : job[u].at = "calling" /\ job[u].id = k}}
    \cup {<<"running", w>> : w \in {v \in Clients \X Queues : running[v[1]][v[2]] = k}}
    \cup UNION {{<<"queued", c, q, i>> : i \in {j \in DOMAIN queue[c][q] :
                                                   queue[c][q][j] = k}} :
                c \in Clients, q \in Queues}

\* A call is neither lost nor answered twice: each port that was used has one
\* message, or its operation is in exactly one place, also while its client is
\* being destroyed (post drops work only after the last reference is gone).
CallAccounted ==
    \A k \in Calls :
        (IF target[k] = None THEN 0 ELSE 1)
            = answers[k] + Cardinality(Waiting(k))

\* The cover half of a removal is never dropped: while an operation runs on
\* operations, cover_operations still accepts work (destructor order).
CoverHalfAccepted ==
    \A c \in Clients :
        running[c]["operations"] # None => ~Stopping(c, "cover")

\* "Retire immediately; report completion after queued calls and cleanup
\* finish" (native/include/bluez_media_native.h): when the close of a client
\* is reported, its context is destroyed and the calls it accepted are answered.
CloseReportedAfterCleanup ==
    \A d \in Closes, c \in Clients :
        target[d] = c /\ answers[d] > 0 =>
            /\ phase[c] = "gone"
            /\ \A k \in Calls : target[k] = c => answers[k] = 1

\* Every call and every close request is answered in the end.
EveryPortAnswered ==
    \A p \in Ports : target[p] # None ~> answers[p] > 0

\* The client as its caller sees it.
Seen(c) ==
    IF phase[c] = "absent" THEN "absent"
    ELSE IF c \in clients THEN "open"
    ELSE IF phase[c] = "gone" THEN "gone" ELSE "retired"

Contract == INSTANCE ClientContract WITH
    client <- [c \in Clients |-> Seen(c)],
    call   <- [k \in Calls |-> IF target[k] = None THEN "unused"
                                ELSE IF answers[k] = 0 THEN "accepted"
                                ELSE "answered"],
    owner  <- [k \in Calls |-> target[k]]

\* The registry, the reference counts and the drained queues implement the
\* contract: calls accepted before the retirement are answered before the
\* context goes, no later one is accepted, and a retired client does go.
ImplementsContract == Contract!Spec

=============================================================================
