----------------------------- MODULE HttpServer -----------------------------
(***************************************************************************)
(* The HTTP server of the operations API: one thread accepts connections   *)
(* and queues them, a fixed number of workers takes them off the queue,    *)
(* and the destructor of the node stops them all.                          *)
(*                                                                         *)
(* A wait on client_queue_condition_ is two steps of a worker: it tests    *)
(* its predicate, and, still holding client_queue_mutex_, it falls asleep. *)
(* What a worker does with a connection is left to the modules that extend *)
(* this one.                                                               *)
(***************************************************************************)
EXTENDS Naturals, Sequences, FiniteSets

CONSTANTS
    MaxClients,      \* bound: connections, numbered in the order accept() returns them
    HttpWorkers,     \* worker_threads_
    HttpQueueLimit,  \* http_queue_limit_
    MayShutDown      \* whether the node may be destroyed

ASSUME HttpAssumption ==
    /\ MaxClients \in Nat
    /\ IsFiniteSet(HttpWorkers)
    /\ HttpQueueLimit \in Nat \ {0}
    /\ MayShutDown \in BOOLEAN

Clients == 1..MaxClients
NoClient == 0

VARIABLES
    running,      \* running_
    clientQueue,  \* client_queue_
    acceptor,     \* where server_loop is
    thread,       \* where each worker_loop is
    client,       \* the connection each worker handles
    notifyAll,    \* whether the destructor's notify_all is still to come
    closed,       \* history: the connections that ended, and how
    late          \* history: the connections queued after running_ was cleared

httpVars == <<running, clientQueue, acceptor, thread, client, notifyAll, closed, late>>

HttpInit ==
    /\ running = TRUE
    /\ clientQueue = << >>
    /\ acceptor = "accept"
    /\ thread = [w \in HttpWorkers |-> "test"]
    /\ client = [w \in HttpWorkers |-> NoClient]
    /\ notifyAll = FALSE
    /\ closed = [c \in Clients |-> "open"]
    /\ late = {}

QueueLocked == \E w \in HttpWorkers : thread[w] = "falling asleep"

InHand == {client[w] : w \in HttpWorkers} \cup {clientQueue[i] : i \in DOMAIN clientQueue}

Arrives(c) ==
    /\ closed[c] = "open" /\ c \notin InHand
    /\ \A d \in 1..(c - 1) : closed[d] # "open" \/ d \in InHand

(* accept() returns a connection, perhaps one that arrived just before the  *)
(* socket was closed; it is queued, or closed when the queue is full.       *)
AcceptClient(c) ==
    /\ acceptor = "accept"
    /\ ~QueueLocked
    /\ Arrives(c)
    /\ IF Len(clientQueue) < HttpQueueLimit
       THEN /\ clientQueue' = Append(clientQueue, c)
            /\ acceptor' = "notify"
            /\ late' = IF running THEN late ELSE late \cup {c}
            /\ UNCHANGED closed
       ELSE /\ closed' = [closed EXCEPT ![c] = "refused"]
            /\ UNCHANGED <<clientQueue, acceptor, late>>
    /\ UNCHANGED <<running, thread, client, notifyAll>>

Wake(ws) == thread' = [w \in HttpWorkers |-> IF w \in ws THEN "test" ELSE thread[w]]

Asleep == {w \in HttpWorkers : thread[w] = "asleep"}

NotifyOne ==
    /\ acceptor = "notify"
    /\ acceptor' = "accept"
    /\ IF Asleep = {} THEN UNCHANGED thread ELSE \E w \in Asleep : Wake({w})
    /\ UNCHANGED <<running, clientQueue, client, notifyAll, closed, late>>

ServerLoopEnds ==
    /\ acceptor = "accept"
    /\ ~running
    /\ acceptor' = "gone"
    /\ UNCHANGED <<running, clientQueue, thread, client, notifyAll, closed, late>>

(* Mutant: workers leave as soon as the server stops. *)
TestQueue_NoDrain(w) ==
    /\ thread[w] = "test" /\ ~QueueLocked
    /\ IF running /\ clientQueue # << >>
       THEN /\ thread' = [thread EXCEPT ![w] = "handle"]
            /\ client' = [client EXCEPT ![w] = Head(clientQueue)]
            /\ clientQueue' = Tail(clientQueue)
       ELSE /\ thread' = [thread EXCEPT ![w] = IF running THEN "falling asleep" ELSE "gone"]
            /\ UNCHANGED <<client, clientQueue>>
    /\ UNCHANGED <<running, acceptor, notifyAll, closed, late>>

(* A worker holds the mutex and evaluates the predicate of its wait.       *)
TestQueue(w) ==
    /\ thread[w] = "test"
    /\ ~QueueLocked
    /\ IF clientQueue # << >>
       THEN /\ thread' = [thread EXCEPT ![w] = "handle"]
            /\ client' = [client EXCEPT ![w] = Head(clientQueue)]
            /\ clientQueue' = Tail(clientQueue)
       ELSE /\ thread' = [thread EXCEPT ![w] = IF running THEN "falling asleep" ELSE "gone"]
            /\ UNCHANGED <<client, clientQueue>>
    /\ UNCHANGED <<running, acceptor, notifyAll, closed, late>>

FallAsleep(w) ==
    /\ thread[w] = "falling asleep"
    /\ thread' = [thread EXCEPT ![w] = "asleep"]
    /\ UNCHANGED <<running, clientQueue, acceptor, client, notifyAll, closed, late>>

(* The response is sent and the connection closed.                         *)
CloseClient(w) ==
    /\ thread[w] = "handle"
    /\ closed' = [closed EXCEPT ![client[w]] = "served"]
    /\ client' = [client EXCEPT ![w] = NoClient]
    /\ thread' = [thread EXCEPT ![w] = "test"]
    /\ UNCHANGED <<running, clientQueue, acceptor, notifyAll, late>>

(* The destructor: running_ is cleared without the mutex, then all waiting *)
(* threads are notified.                                                   *)
ShutDown ==
    /\ MayShutDown /\ running
    /\ running' = FALSE
    /\ notifyAll' = TRUE
    /\ UNCHANGED <<clientQueue, acceptor, thread, client, closed, late>>

NotifyAll ==
    /\ notifyAll
    /\ notifyAll' = FALSE
    /\ Wake(Asleep)
    /\ UNCHANGED <<running, clientQueue, acceptor, client, closed, late>>

HttpThreads ==
    \/ NotifyOne
    \/ ServerLoopEnds
    \/ NotifyAll
    \/ \E w \in HttpWorkers : TestQueue(w) \/ FallAsleep(w)

HttpStep ==
    \/ HttpThreads
    \/ ShutDown
    \/ \E c \in Clients : AcceptClient(c)

HttpTypeOK ==
    /\ running \in BOOLEAN /\ notifyAll \in BOOLEAN
    /\ clientQueue \in Seq(Clients)
    /\ acceptor \in {"accept", "notify", "gone"}
    /\ thread \in [HttpWorkers -> {"test", "falling asleep", "asleep", "handle", "gone"}]
    /\ client \in [HttpWorkers -> Clients \cup {NoClient}]
    /\ \A w \in HttpWorkers : thread[w] = "handle" <=> client[w] # NoClient
    /\ closed \in [Clients -> {"open", "refused", "served"}]
    /\ late \subseteq Clients

ClientStatus ==
    [c \in Clients |-> IF closed[c] # "open" THEN closed[c]
                       ELSE IF c \notin InHand THEN "outside"
                       ELSE IF c \in late THEN "late" ELSE "pending"]

Server == INSTANCE RequestServer WITH
    Limit <- HttpQueueLimit,
    Capacity <- HttpQueueLimit + Cardinality(HttpWorkers),
    status <- ClientStatus,
    open <- running

(* The pool implements the bounded server: no connection is lost, handled  *)
(* twice or refused while the queue has room, none is left in the queue    *)
(* with every worker asleep, and what was queued before a shutdown is      *)
(* still answered.                                                         *)
ServesClients == Server!Spec

(* The destructor ends: it joins every worker.                             *)
WorkersJoin == ~running ~> (\A w \in HttpWorkers : thread[w] = "gone")
=============================================================================
