---------------------- MODULE CalibrationServiceProofs ----------------------
(***************************************************************************)
(* Proofs about CalibrationService: the HTTP server implements the bounded *)
(* request server, and the session invariants hold however many workers    *)
(* serve requests.                                                         *)
(***************************************************************************)
EXTENDS CalibrationService, FiniteSetTheorems, SequenceTheorems, TLAPS

(* A connection is in one place only, and open while it is in hand.        *)
HandInv ==
    /\ \A i, j \in 1..Len(clientQueue) : clientQueue[i] = clientQueue[j] => i = j
    /\ \A v, w \in HttpWorkers : client[v] = client[w] /\ client[v] # NoClient => v = w
    /\ \A i \in 1..Len(clientQueue), w \in HttpWorkers : clientQueue[i] # client[w]
    /\ \A c \in Clients : c \in InHand => closed[c] = "open"
    /\ \A c \in late : c \in InHand \/ closed[c] # "open"

HttpInv == HttpTypeOK /\ HandInv

(* The session: what is active is complete, and every sample in it or in   *)
(* the hands of a worker was taken with a board, a size and an epoch the   *)
(* service had.                                                            *)
SessionInv ==
    /\ epochs \in Nat
    /\ session \in [active : BOOLEAN, board : Boards \cup {NoBoard}, size : Sizes \cup {NoImage},
                    samples : SUBSET Sample, ready : BOOLEAN, result : SUBSET Sample,
                    epoch : 0..epochs]
    /\ session.active => /\ session.board \in Boards /\ session.size \in Sizes
                         /\ session.epoch > 0
    /\ latestFrame \in Sizes \cup {NoImage}
    /\ pending \in BOOLEAN /\ verified \in BOOLEAN

HandlerInv ==
    /\ handler = [w \in HttpWorkers |-> handler[w]]
    /\ \A w \in HttpWorkers :
          /\ handler[w].phase \in {"read", "search", "restart", "verify"}
          /\ handler[w].phase = "search" =>
                 handler[w].copied \in [board : Boards, size : Sizes, epoch : 1..epochs]

(* The camera runs with a calibration only after the file held one, and    *)
(* says so only while it runs with one.                                    *)
CameraInv ==
    /\ loaded # Placeholder => calibration # Placeholder
    /\ \A content \in infoTopic : content # Placeholder => loaded # Placeholder
    /\ verified => loaded # Placeholder

CalibrationInv ==
    /\ SessionInv
    /\ ResultCurrent
    /\ CameraInv

ServiceInv ==
    /\ HttpInv
    /\ CalibrationInv
    /\ HandlerInv

-----------------------------------------------------------------------------
(* The HTTP server. *)

LEMMA ClientFacts == NoClient \notin Clients /\ Clients \subseteq Nat
  BY HttpAssumption DEF NoClient, Clients

(* Who is in hand: with a worker, or in the queue.                         *)
LEMMA InHandMeans ==
    ASSUME HttpTypeOK, NEW c
    PROVE  c \in InHand <=> \/ \E w \in HttpWorkers : client[w] = c
                            \/ \E i \in 1..Len(clientQueue) : clientQueue[i] = c
<1>1. DOMAIN clientQueue = 1..Len(clientQueue)
  BY LenProperties DEF HttpTypeOK
<1> QED
  BY <1>1 DEF InHand

LEMMA InHandMeansNext ==
    ASSUME HttpTypeOK', NEW c
    PROVE  c \in InHand' <=> \/ \E w \in HttpWorkers : client'[w] = c
                             \/ \E i \in 1..Len(clientQueue') : clientQueue'[i] = c
<1>1. DOMAIN clientQueue' = 1..Len(clientQueue')
  BY LenProperties DEF HttpTypeOK
<1> QED
  BY <1>1 DEF InHand

LEMMA HttpInitial == HttpInit => HttpInv
<1> SUFFICES ASSUME HttpInit PROVE HttpInv
  OBVIOUS
<1>1. HttpTypeOK
  <2>1. running \in BOOLEAN /\ notifyAll \in BOOLEAN
    BY DEF HttpInit
  <2>2. clientQueue \in Seq(Clients) /\ client \in [HttpWorkers -> Clients \cup {NoClient}]
    BY DEF HttpInit
  <2> QED
    BY <2>1, <2>2 DEF HttpInit, HttpTypeOK
<1>2. HandInv
  <2>1. Len(clientQueue) = 0 /\ \A w \in HttpWorkers : client[w] = NoClient
    BY DEF HttpInit
  <2> QED
    BY <2>1, <1>1, InHandMeans, ClientFacts DEF HttpInit, HandInv
<1> QED
  BY <1>1, <1>2 DEF HttpInv

(* Steps that only move threads: no connection changes hands.              *)
handVars == <<clientQueue, client, closed, late>>

ThreadsMove ==
    /\ UNCHANGED handVars
    /\ running' \in BOOLEAN /\ notifyAll' \in BOOLEAN
    /\ acceptor' \in {"accept", "notify", "gone"}
    /\ thread' \in [HttpWorkers -> {"test", "falling asleep", "asleep", "handle", "gone"}]
    /\ \A w \in HttpWorkers : thread'[w] = "handle" <=> thread[w] = "handle"

LEMMA ThreadsMoveKeeps ==
    ASSUME HttpInv, ThreadsMove
    PROVE  HttpInv'
<1>1. HttpTypeOK'
  BY DEF HttpInv, HttpTypeOK, ThreadsMove, handVars
<1>2. InHand' = InHand
  BY DEF ThreadsMove, handVars, InHand
<1>3. HandInv'
  BY <1>2 DEF HttpInv, HandInv, ThreadsMove, handVars
<1> QED
  BY <1>1, <1>3 DEF HttpInv

(* A worker takes the first connection of the queue. *)
Takes(w) ==
    /\ thread[w] = "test" /\ clientQueue # << >>
    /\ thread' = [thread EXCEPT ![w] = "handle"]
    /\ client' = [client EXCEPT ![w] = Head(clientQueue)]
    /\ clientQueue' = Tail(clientQueue)
    /\ UNCHANGED <<running, acceptor, notifyAll, closed, late>>

LEMMA TakesKeeps ==
    ASSUME HttpInv, NEW w \in HttpWorkers, Takes(w)
    PROVE  HttpInv' /\ \A c \in Clients : c \in InHand' <=> c \in InHand
<1> USE ClientFacts
<1> DEFINE n == Len(clientQueue)
<1>1. /\ n \in Nat /\ n > 0 /\ Len(clientQueue') = n - 1
      /\ Head(clientQueue) = clientQueue[1] /\ clientQueue[1] \in Clients
      /\ clientQueue' \in Seq(Clients)
      /\ \A i \in 1..(n - 1) : clientQueue'[i] = clientQueue[i + 1]
      /\ \A i \in 1..n : i = 1 \/ clientQueue'[i - 1] = clientQueue[i]
  <2>1. clientQueue \in Seq(Clients) /\ clientQueue # << >> /\ clientQueue' = Tail(clientQueue)
    BY DEF Takes, HttpInv, HttpTypeOK
  <2>2. n \in Nat /\ n > 0 /\ Head(clientQueue) = clientQueue[1]
    BY <2>1
  <2>3. /\ Head(clientQueue) \in Clients /\ clientQueue' \in Seq(Clients) /\ Len(clientQueue') = n - 1
        /\ \A i \in 1..Len(clientQueue') : clientQueue'[i] = clientQueue[i + 1]
    BY <2>1, HeadTailProperties
  <2> HIDE DEF n
  <2>4. \A i \in 1..n : i # 1 => i - 1 \in 1..(n - 1) /\ (i - 1) + 1 = i
    BY <2>2
  <2>5. \A i \in 1..(n - 1) : clientQueue'[i] = clientQueue[i + 1]
    BY ONLY <2>3
  <2>6. ASSUME NEW i \in 1..n, i # 1 PROVE clientQueue'[i - 1] = clientQueue[i]
    <3>1. i - 1 \in 1..(n - 1) /\ (i - 1) + 1 = i
      BY <2>4, <2>6
    <3>2. clientQueue'[i - 1] = clientQueue[(i - 1) + 1]
      BY ONLY <2>5, <3>1, Zenon
    <3> QED
      BY ONLY <3>1, <3>2
  <2> QED
    BY ONLY <2>2, <2>3, <2>5, <2>6
<1>2. /\ client[w] = NoClient /\ client'[w] = clientQueue[1]
      /\ \A v \in HttpWorkers : v # w => client'[v] = client[v]
      /\ client' \in [HttpWorkers -> Clients \cup {NoClient}]
      /\ UNCHANGED <<closed, late>>
  BY <1>1 DEF Takes, HttpInv, HttpTypeOK
<1>3. HttpTypeOK'
  BY <1>1, <1>2 DEF Takes, HttpInv, HttpTypeOK
<1> HIDE DEF n
<1>4. ASSUME NEW c \in Clients PROVE c \in InHand' <=> c \in InHand
  <2>1. ASSUME c \in InHand' PROVE c \in InHand
    <3>1. \/ \E v \in HttpWorkers : client'[v] = c
          \/ \E i \in 1..Len(clientQueue') : clientQueue'[i] = c
      BY <1>3, <2>1, InHandMeansNext
    <3>2. ASSUME NEW v \in HttpWorkers, client'[v] = c
          PROVE  \/ \E u \in HttpWorkers : client[u] = c
                 \/ \E i \in 1..n : clientQueue[i] = c
      BY <1>1, <1>2, <3>2
    <3>3. ASSUME NEW i \in 1..Len(clientQueue'), clientQueue'[i] = c
          PROVE  \E j \in 1..n : clientQueue[j] = c
      <4>1. i + 1 \in 1..n /\ clientQueue[i + 1] = c
        BY <1>1, <3>3
      <4> QED
        BY <4>1
    <3> QED
      BY <3>1, <3>2, <3>3, InHandMeans DEF HttpInv, n
  <2>2. ASSUME c \in InHand PROVE c \in InHand'
    <3>1. \/ \E v \in HttpWorkers : client[v] = c
          \/ \E i \in 1..n : clientQueue[i] = c
      BY <2>2, InHandMeans DEF HttpInv, n
    <3>2. ASSUME NEW v \in HttpWorkers, client[v] = c
          PROVE  \E u \in HttpWorkers : client'[u] = c
      BY <1>2, <3>2
    <3>3. ASSUME NEW i \in 1..n, clientQueue[i] = c
          PROVE  \/ \E u \in HttpWorkers : client'[u] = c
                 \/ \E j \in 1..Len(clientQueue') : clientQueue'[j] = c
      <4>1. CASE i = 1
        BY <1>2, <3>3, <4>1
      <4>2. CASE i # 1
        <5>1. i - 1 \in 1..Len(clientQueue') /\ clientQueue'[i - 1] = c
          BY <1>1, <3>3, <4>2
        <5> QED
          BY <5>1
      <4> QED
        BY <4>1, <4>2
    <3> QED
      BY <1>3, <3>1, <3>2, <3>3, InHandMeansNext
  <2> QED
    BY <2>1, <2>2
<1>5. /\ \A i, j \in 1..n : clientQueue[i] = clientQueue[j] => i = j
      /\ \A u, v \in HttpWorkers : client[u] = client[v] /\ client[u] # NoClient => u = v
      /\ \A i \in 1..n, v \in HttpWorkers : clientQueue[i] # client[v]
      /\ \A c \in Clients : c \in InHand => closed[c] = "open"
      /\ \A c \in late : c \in InHand \/ closed[c] # "open"
      /\ late \subseteq Clients
  BY DEF HttpInv, HttpTypeOK, HandInv, n
<1>6. \A i, j \in 1..Len(clientQueue') : clientQueue'[i] = clientQueue'[j] => i = j
  BY <1>1, <1>5
<1>7. \A u, v \in HttpWorkers : client'[u] = client'[v] /\ client'[u] # NoClient => u = v
  BY <1>1, <1>2, <1>5
<1>8. ASSUME NEW i \in 1..Len(clientQueue'), NEW v \in HttpWorkers
      PROVE  clientQueue'[i] # client'[v]
  <2>1. /\ i + 1 \in 1..n /\ 1 \in 1..n /\ i + 1 # 1
        /\ clientQueue'[i] = clientQueue[i + 1]
    BY <1>1
  <2>2. CASE v = w
    BY <1>2, <1>5, <2>1, <2>2
  <2>3. CASE v # w
    BY <1>2, <1>5, <2>1, <2>3
  <2> QED
    BY <2>2, <2>3
<1>9. HandInv'
  BY <1>2, <1>4, <1>5, <1>6, <1>7, <1>8 DEF HandInv
<1> QED
  BY <1>3, <1>4, <1>9 DEF HttpInv

(* A connection is closed by the one worker that has it. *)
LEMMA CloseKeeps ==
    ASSUME HttpInv, NEW w \in HttpWorkers, CloseClient(w)
    PROVE  /\ HttpInv'
           /\ client[w] \in Clients /\ client[w] \in InHand /\ closed[client[w]] = "open"
           /\ \A c \in Clients : c # client[w] => (c \in InHand' <=> c \in InHand)
<1> USE ClientFacts
<1> DEFINE d == client[w]
<1>1. /\ d \in Clients /\ d \in InHand /\ closed[d] = "open"
  <2>1. d \in Clients /\ d \in InHand
    BY InHandMeans DEF CloseClient, HttpInv, HttpTypeOK
  <2> QED
    BY <2>1 DEF HttpInv, HandInv
<1>2. /\ closed' = [closed EXCEPT ![d] = "served"]
      /\ client' = [client EXCEPT ![w] = NoClient]
      /\ thread' = [thread EXCEPT ![w] = "test"]
      /\ UNCHANGED <<running, clientQueue, acceptor, notifyAll, late>>
  BY DEF CloseClient
<1>3. HttpTypeOK'
  BY <1>1, <1>2 DEF HttpInv, HttpTypeOK
<1>4. /\ client'[w] = NoClient /\ \A v \in HttpWorkers : v # w => client'[v] = client[v]
      /\ closed'[d] = "served" /\ \A c \in Clients : c # d => closed'[c] = closed[c]
  BY <1>1, <1>2 DEF HttpInv, HttpTypeOK
<1>5. ASSUME NEW c \in Clients, c # d PROVE c \in InHand' <=> c \in InHand
  <2>1. (\E v \in HttpWorkers : client'[v] = c) <=> (\E v \in HttpWorkers : client[v] = c)
    BY <1>4, <1>5
  <2> QED
    BY <1>2, <1>3, <2>1, InHandMeans, InHandMeansNext DEF HttpInv
<1>6. d \notin InHand'
  <2>1. \A v \in HttpWorkers : client'[v] # d
    BY <1>1, <1>4 DEF HttpInv, HandInv
  <2>2. \A i \in 1..Len(clientQueue') : clientQueue'[i] # d
    BY <1>2 DEF HttpInv, HandInv
  <2> QED
    BY <1>3, <2>1, <2>2, InHandMeansNext
<1>7. HandInv'
  <2>1. /\ \A u, v \in HttpWorkers : client'[u] = client'[v] /\ client'[u] # NoClient => u = v
        /\ \A i \in 1..Len(clientQueue'), v \in HttpWorkers : clientQueue'[i] # client'[v]
    <3>1. \A i \in 1..Len(clientQueue) : clientQueue[i] \in Clients
      BY ElementOfSeq DEF HttpInv, HttpTypeOK
    <3> QED
      BY <1>2, <1>4, <3>1 DEF HttpInv, HandInv
  <2>2. /\ \A c \in Clients : c \in InHand' => closed'[c] = "open"
        /\ \A c \in late' : c \in InHand' \/ closed'[c] # "open"
    <3>1. late' = late /\ \A c \in late : c \in Clients
      BY <1>2 DEF HttpInv, HttpTypeOK
    <3>2. /\ \A c \in Clients : c \in InHand => closed[c] = "open"
          /\ \A c \in late : c \in InHand \/ closed[c] # "open"
      BY DEF HttpInv, HandInv
    <3> QED
      BY <1>1, <1>4, <1>5, <1>6, <3>1, <3>2
  <2> QED
    BY <1>2, <2>1, <2>2 DEF HttpInv, HandInv
<1> QED
  BY <1>1, <1>3, <1>5, <1>7 DEF HttpInv

(* The acceptor queues a connection, which was nowhere before. *)
Queues(c) ==
    /\ Arrives(c)
    /\ Len(clientQueue) < HttpQueueLimit
    /\ clientQueue' = Append(clientQueue, c)
    /\ acceptor' = "notify"
    /\ late' = IF running THEN late ELSE late \cup {c}
    /\ UNCHANGED <<running, thread, client, notifyAll, closed>>

LEMMA QueuesKeeps ==
    ASSUME HttpInv, NEW c \in Clients, Queues(c)
    PROVE  /\ HttpInv' /\ c \in InHand'
           /\ \A d \in Clients : d # c => (d \in InHand' <=> d \in InHand)
<1> USE ClientFacts
<1> DEFINE n == Len(clientQueue)
<1>1. /\ n \in Nat /\ clientQueue' \in Seq(Clients) /\ Len(clientQueue') = n + 1
      /\ \A i \in 1..n : clientQueue'[i] = clientQueue[i]
      /\ clientQueue'[n + 1] = c
  <2>1. clientQueue \in Seq(Clients) /\ clientQueue' = Append(clientQueue, c)
    BY DEF Queues, HttpInv, HttpTypeOK
  <2>2. n \in Nat
    BY <2>1, LenProperties
  <2> QED
    BY <2>1, <2>2, AppendProperties
<1>2. /\ closed[c] = "open" /\ c \notin InHand
      /\ late' = IF running THEN late ELSE late \cup {c}
      /\ UNCHANGED <<client, closed>>
  BY DEF Queues, Arrives
<1>3. HttpTypeOK'
  BY <1>1, <1>2 DEF Queues, HttpInv, HttpTypeOK
<1>4. /\ \A w \in HttpWorkers : client[w] # c
      /\ \A i \in 1..n : clientQueue[i] # c
  BY <1>2, InHandMeans DEF HttpInv
<1> HIDE DEF n
<1>5. c \in InHand'
  <2>1. n + 1 \in 1..Len(clientQueue')
    BY <1>1
  <2> QED
    BY <1>1, <1>3, <2>1, InHandMeansNext
<1>6. ASSUME NEW d \in Clients, d # c PROVE d \in InHand' <=> d \in InHand
  <2>1. (\E i \in 1..Len(clientQueue') : clientQueue'[i] = d) <=> (\E i \in 1..n : clientQueue[i] = d)
    <3>1. \A i \in 1..Len(clientQueue') : i \in 1..n \/ i = n + 1
      BY <1>1
    <3>2. \A i \in 1..n : i \in 1..Len(clientQueue')
      BY <1>1
    <3> QED
      BY <1>1, <1>6, <3>1, <3>2
  <2> QED
    BY <1>2, <1>3, <2>1, InHandMeans, InHandMeansNext DEF HttpInv, n
<1>7. /\ \A i, j \in 1..Len(clientQueue') : clientQueue'[i] = clientQueue'[j] => i = j
      /\ \A i \in 1..Len(clientQueue'), w \in HttpWorkers : clientQueue'[i] # client'[w]
  <2>1. \A i \in 1..Len(clientQueue') : i \in 1..n \/ i = n + 1
    BY <1>1
  <2>2. /\ \A i, j \in 1..n : clientQueue[i] = clientQueue[j] => i = j
        /\ \A i \in 1..n, w \in HttpWorkers : clientQueue[i] # client[w]
    BY DEF HttpInv, HandInv, n
  <2> QED
    BY <1>1, <1>2, <1>4, <2>1, <2>2
<1>8. /\ \A d \in Clients : d \in InHand' => closed'[d] = "open"
      /\ \A d \in late' : d \in InHand' \/ closed'[d] # "open"
      /\ \A u, v \in HttpWorkers : client'[u] = client'[v] /\ client'[u] # NoClient => u = v
  BY <1>2, <1>5, <1>6 DEF HttpInv, HttpTypeOK, HandInv
<1>9. HandInv'
  BY <1>7, <1>8 DEF HandInv
<1> QED
  BY <1>3, <1>5, <1>6, <1>9 DEF HttpInv

(* The acceptor closes a connection when the queue is full. *)
Refuses(c) ==
    /\ Arrives(c)
    /\ Len(clientQueue) >= HttpQueueLimit
    /\ closed' = [closed EXCEPT ![c] = "refused"]
    /\ UNCHANGED <<running, clientQueue, acceptor, thread, client, notifyAll, late>>

LEMMA RefusesKeeps ==
    ASSUME HttpInv, NEW c \in Clients, Refuses(c)
    PROVE  HttpInv' /\ InHand' = InHand
<1>1. InHand' = InHand
  BY DEF Refuses, InHand
<1>2. /\ c \notin InHand /\ closed'[c] = "refused"
      /\ \A d \in Clients : d # c => closed'[d] = closed[d]
  BY DEF Refuses, Arrives, HttpInv, HttpTypeOK
<1>3. HttpTypeOK'
  BY DEF Refuses, HttpInv, HttpTypeOK
<1>4. HandInv'
  <2>1. UNCHANGED <<clientQueue, client, late>>
    BY DEF Refuses
  <2>2. /\ \A d \in Clients : d \in InHand' => closed'[d] = "open"
        /\ \A d \in late' : d \in InHand' \/ closed'[d] # "open"
    BY <1>1, <1>2, <2>1 DEF HttpInv, HttpTypeOK, HandInv
  <2> QED
    BY <2>1, <2>2 DEF HttpInv, HandInv
<1> QED
  BY <1>1, <1>3, <1>4 DEF HttpInv

(* The steps of the service, as the server sees them. *)
HttpKind ==
    \/ ThreadsMove /\ (running' = running \/ (running /\ ~running'))
    \/ \E w \in HttpWorkers : (Takes(w) \/ CloseClient(w))
    \/ \E c \in Clients : (Queues(c) \/ Refuses(c))

LEMMA HttpKinds ==
    ASSUME HttpInv, HttpStep \/ (\E w \in HttpWorkers : CloseClient(w)) \/ UNCHANGED httpVars
    PROVE  HttpKind
<1> USE DEF HttpInv, HttpTypeOK
<1>1. CASE UNCHANGED httpVars
  BY <1>1 DEF HttpKind, ThreadsMove, handVars, httpVars
<1>2. CASE \E w \in HttpWorkers : CloseClient(w)
  BY <1>2 DEF HttpKind
<1>3. CASE \E c \in Clients : AcceptClient(c)
  <2>1. PICK c \in Clients : AcceptClient(c)
    BY <1>3
  <2>2. CASE Len(clientQueue) < HttpQueueLimit
    BY <2>1, <2>2 DEF HttpKind, AcceptClient, Queues
  <2>3. CASE ~(Len(clientQueue) < HttpQueueLimit)
    <3>1. Len(clientQueue) >= HttpQueueLimit
      <4>1. Len(clientQueue) \in Nat
        BY LenProperties
      <4>2. HttpQueueLimit \in Nat
        BY HttpAssumption
      <4> QED
        BY ONLY <2>3, <4>1, <4>2
    <3> QED
      BY <2>1, <2>3, <3>1 DEF HttpKind, AcceptClient, Refuses
  <2> QED
    BY <2>2, <2>3
<1>4. CASE ShutDown
  <2>1. ThreadsMove /\ running /\ ~running'
    BY <1>4 DEF ShutDown, ThreadsMove, handVars
  <2> QED
    BY <2>1 DEF HttpKind
<1>5. CASE NotifyOne
  <2>1. thread' \in [HttpWorkers -> {"test", "falling asleep", "asleep", "handle", "gone"}]
        /\ \A w \in HttpWorkers : thread'[w] = "handle" <=> thread[w] = "handle"
    <3>1. CASE Asleep = {}
      BY <1>5, <3>1 DEF NotifyOne
    <3>2. CASE Asleep # {}
      BY <1>5, <3>2 DEF NotifyOne, Wake, Asleep
    <3> QED
      BY <3>1, <3>2
  <2> QED
    BY <1>5, <2>1 DEF HttpKind, ThreadsMove, handVars, NotifyOne
<1>6. CASE ServerLoopEnds
  BY <1>6 DEF HttpKind, ThreadsMove, handVars, ServerLoopEnds
<1>7. CASE NotifyAll
  <2>1. notifyAll' \in BOOLEAN
    BY <1>7 DEF NotifyAll
  <2> QED
    BY <1>7, <2>1 DEF HttpKind, ThreadsMove, handVars, NotifyAll, Wake, Asleep
<1>8. ASSUME NEW w \in HttpWorkers, TestQueue(w) PROVE HttpKind
  <2>1. CASE clientQueue # << >>
    BY <1>8, <2>1 DEF HttpKind, TestQueue, Takes
  <2>2. CASE clientQueue = << >>
    BY <1>8, <2>2 DEF HttpKind, TestQueue, ThreadsMove, handVars
  <2> QED
    BY <2>1, <2>2
<1>9. ASSUME NEW w \in HttpWorkers, FallAsleep(w) PROVE HttpKind
  BY <1>9 DEF HttpKind, FallAsleep, ThreadsMove, handVars
<1> QED
  BY <1>1, <1>2, <1>3, <1>4, <1>5, <1>6, <1>7, <1>8, <1>9 DEF HttpStep, HttpThreads

LEMMA HttpKeeps ==
    ASSUME HttpInv, HttpKind
    PROVE  HttpInv'
  BY ThreadsMoveKeeps, TakesKeeps, CloseKeeps, QueuesKeeps, RefusesKeeps DEF HttpKind

-----------------------------------------------------------------------------
(* The server implements the bounded server.  What it has in hand is what  *)
(* the bounded server has admitted.                                        *)

LEMMA StatusMeans ==
    ASSUME HttpInv, NEW c \in Clients
    PROVE  ClientStatus[c] = IF closed[c] # "open" THEN closed[c]
                             ELSE IF c \notin InHand THEN "outside"
                             ELSE IF c \in late THEN "late" ELSE "pending"
  BY DEF ClientStatus

LEMMA PendingInHand ==
    ASSUME HttpInv
    PROVE  Server!Pending = {c \in Clients : c \in InHand}
  BY StatusMeans DEF Server!Pending, HttpInv, HttpTypeOK, HandInv

(* The queue holds as many connections as it is long, and the workers at   *)
(* most one each.                                                          *)
LEMMA PendingBounds ==
    ASSUME HttpInv
    PROVE  /\ Cardinality(Server!Pending) \in Nat
           /\ Len(clientQueue) <= Cardinality(Server!Pending)
           /\ Cardinality(Server!Pending) <= Len(clientQueue) + Cardinality(HttpWorkers)
<1> DEFINE n == Len(clientQueue)
           Queued == {clientQueue[i] : i \in 1..n}
           Taken == {client[w] : w \in HttpWorkers}
<1>1. n \in Nat /\ clientQueue \in [1..n -> Clients] /\ client \in [HttpWorkers -> Clients \cup {NoClient}]
  BY LenProperties DEF HttpInv, HttpTypeOK
<1>2. IsFiniteSet(1..n) /\ Cardinality(1..n) = n
  BY <1>1, FS_Interval
<1>3. IsFiniteSet(Queued) /\ Cardinality(Queued) = n
  <2>1. clientQueue \in [1..n -> Queued]
    BY <1>1
  <2>2. \A i, j \in 1..n : clientQueue[i] = clientQueue[j] => i = j
    BY DEF HttpInv, HandInv
  <2>3. clientQueue \in Bijection(1..n, Queued)
    BY <2>1, <2>2 DEF Bijection, Injection, Surjection, IsInjective
  <2>4. ExistsBijection(1..n, Queued)
    BY <2>3 DEF ExistsBijection
  <2> QED
    BY <1>2, <2>4, FS_Bijection
<1>4. IsFiniteSet(HttpWorkers) /\ Cardinality(HttpWorkers) \in Nat
  BY HttpAssumption, FS_CardinalityType
<1>5. IsFiniteSet(Taken) /\ Cardinality(Taken) <= Cardinality(HttpWorkers) /\ Cardinality(Taken) \in Nat
  <2>1. client \in Surjection(HttpWorkers, Taken)
    BY <1>1 DEF Surjection
  <2> QED
    BY <1>4, <2>1, FS_Surjection, FS_CardinalityType
<1>6. IsFiniteSet(Queued \cup Taken) /\ Cardinality(Queued \cup Taken) \in Nat
      /\ Cardinality(Queued \cup Taken) <= n + Cardinality(HttpWorkers)
  <2>1. IsFiniteSet(Queued \cup Taken) /\ IsFiniteSet(Queued \cap Taken)
        /\ Cardinality(Queued \cup Taken)
             = Cardinality(Queued) + Cardinality(Taken) - Cardinality(Queued \cap Taken)
    BY <1>3, <1>5, FS_Union, FS_Intersection
  <2>2. Cardinality(Queued \cap Taken) \in Nat /\ Cardinality(Queued \cup Taken) \in Nat
    BY <2>1, FS_CardinalityType
  <2> HIDE DEF n, Queued, Taken
  <2> QED
    BY <1>1, <1>3, <1>4, <1>5, <2>1, <2>2
<1>7. Queued \subseteq Server!Pending /\ Server!Pending \subseteq Queued \cup Taken
  BY <1>1, PendingInHand, InHandMeans DEF HttpInv
<1>8. IsFiniteSet(Server!Pending)
      /\ Cardinality(Server!Pending) <= Cardinality(Queued \cup Taken)
  BY <1>6, <1>7, FS_Subset
<1>9. Cardinality(Queued) <= Cardinality(Server!Pending) /\ Cardinality(Server!Pending) \in Nat
  BY <1>7, <1>8, FS_Subset, FS_CardinalityType
<1> HIDE DEF n, Queued, Taken
<1>10. n <= Cardinality(Server!Pending)
       /\ Cardinality(Server!Pending) <= n + Cardinality(HttpWorkers)
  BY <1>1, <1>3, <1>4, <1>6, <1>8, <1>9
<1> QED
  BY <1>9, <1>10 DEF n

LEMMA SameCardinality == \A S : Server!Cardinality(S) = Cardinality(S)
  BY DEF Server!Cardinality, Cardinality

(* A step that changes the status of one connection, or of none. *)
LEMMA StatusSame ==
    ASSUME UNCHANGED <<closed, late>>, \A d \in Clients : d \in InHand' <=> d \in InHand
    PROVE  ClientStatus' = ClientStatus
  BY DEF ClientStatus

LEMMA StatusMoves ==
    ASSUME NEW c \in Clients, NEW to,
           ClientStatus'[c] = to,
           \A d \in Clients : d # c =>
               /\ d \in InHand' <=> d \in InHand
               /\ closed'[d] = closed[d]
               /\ d \in late' <=> d \in late
    PROVE  ClientStatus' = [ClientStatus EXCEPT ![c] = to]
<1>1. \A d \in Clients : d # c => ClientStatus'[d] = ClientStatus[d]
  BY DEF ClientStatus
<1>2. ClientStatus' = [d \in Clients |-> ClientStatus'[d]]
      /\ ClientStatus = [d \in Clients |-> ClientStatus[d]]
  BY DEF ClientStatus
<1> QED
  BY <1>1, <1>2

LEMMA ServerStep ==
    ASSUME HttpInv, HttpKind
    PROVE  [Server!Next]_(Server!vars)
<1>1. CASE ThreadsMove /\ (running' = running \/ (running /\ ~running'))
  <2>1. ClientStatus' = ClientStatus
    BY <1>1, StatusSame DEF ThreadsMove, handVars, InHand
  <2>2. CASE running' = running
    BY <2>1, <2>2 DEF Server!vars
  <2>3. CASE running /\ ~running'
    <3>1. running' = FALSE
      BY <1>1, <2>3 DEF ThreadsMove
    <3> QED
      BY <2>1, <2>3, <3>1 DEF Server!Next, Server!Close
  <2> QED
    BY <1>1, <2>2, <2>3
<1>2. ASSUME NEW w \in HttpWorkers, Takes(w) PROVE [Server!Next]_(Server!vars)
  <2>1. ClientStatus' = ClientStatus /\ running' = running
    BY <1>2, TakesKeeps, StatusSame DEF Takes
  <2> QED
    BY <2>1 DEF Server!vars
<1>3. ASSUME NEW w \in HttpWorkers, CloseClient(w) PROVE [Server!Next]_(Server!vars)
  <2> DEFINE c == client[w]
  <2>1. /\ c \in Clients /\ c \in InHand /\ closed[c] = "open"
        /\ \A d \in Clients : d # c => (d \in InHand' <=> d \in InHand)
    BY <1>3, CloseKeeps
  <2>2. /\ closed'[c] = "served" /\ \A d \in Clients : d # c => closed'[d] = closed[d]
        /\ UNCHANGED <<late, running>>
    BY <1>3, <2>1 DEF CloseClient, HttpInv, HttpTypeOK
  <2> HIDE DEF c
  <2>3. ClientStatus'[c] = "served"
    BY <2>1, <2>2 DEF ClientStatus
  <2>4. ClientStatus' = [ClientStatus EXCEPT ![c] = "served"]
    BY <2>1, <2>2, <2>3, StatusMoves
  <2>5. ClientStatus[c] \in {"pending", "late"}
    BY <2>1, StatusMeans
  <2>6. Server!Serve(c) \/ Server!ServeLate(c)
    BY <2>2, <2>4, <2>5 DEF Server!Serve, Server!ServeLate, Server!Move
  <2> QED
    BY <2>1, <2>6 DEF Server!Next
<1>4. ASSUME NEW c \in Clients, Queues(c) PROVE [Server!Next]_(Server!vars)
  <2>1. /\ closed[c] = "open" /\ c \notin InHand /\ Len(clientQueue) < HttpQueueLimit
        /\ late' = IF running THEN late ELSE late \cup {c}
        /\ UNCHANGED <<closed, running>>
    BY <1>4 DEF Queues, Arrives
  <2>2. /\ c \in InHand'
        /\ \A d \in Clients : d # c => (d \in InHand' <=> d \in InHand)
    BY <1>4, QueuesKeeps
  <2>3. c \notin late /\ ClientStatus[c] = "outside"
    BY <2>1, StatusMeans DEF HttpInv, HandInv
  <2>4. ClientStatus'[c] = IF running THEN "pending" ELSE "late"
    BY <2>1, <2>2, <2>3 DEF ClientStatus
  <2>5. ClientStatus' = [ClientStatus EXCEPT ![c] = IF running THEN "pending" ELSE "late"]
    BY <2>1, <2>2, <2>4, StatusMoves
  <2>6. Cardinality(Server!Pending) < HttpQueueLimit + Cardinality(HttpWorkers)
    <3>1. /\ Len(clientQueue) \in Nat /\ HttpQueueLimit \in Nat
          /\ Cardinality(HttpWorkers) \in Nat /\ Cardinality(Server!Pending) \in Nat
      BY LenProperties, PendingBounds, HttpAssumption, FS_CardinalityType DEF HttpInv, HttpTypeOK
    <3>2. Cardinality(Server!Pending) <= Len(clientQueue) + Cardinality(HttpWorkers)
      BY PendingBounds
    <3> QED
      BY <2>1, <3>1, <3>2
  <2>7. Server!Admit(c)
    BY <2>1, <2>3, <2>5, <2>6, SameCardinality, Zenon DEF Server!Admit, Server!Move
  <2> QED
    BY <2>7 DEF Server!Next
<1>5. ASSUME NEW c \in Clients, Refuses(c) PROVE [Server!Next]_(Server!vars)
  <2>1. /\ closed[c] = "open" /\ c \notin InHand /\ Len(clientQueue) >= HttpQueueLimit
        /\ closed'[c] = "refused" /\ \A d \in Clients : d # c => closed'[d] = closed[d]
        /\ UNCHANGED <<late, running>>
    BY <1>5 DEF Refuses, Arrives, HttpInv, HttpTypeOK
  <2>2. InHand' = InHand
    BY <1>5, RefusesKeeps
  <2>3. ClientStatus[c] = "outside" /\ ClientStatus'[c] = "refused"
    BY <2>1 DEF ClientStatus
  <2>4. ClientStatus' = [ClientStatus EXCEPT ![c] = "refused"]
    BY <2>1, <2>2, <2>3, StatusMoves
  <2>5. Cardinality(Server!Pending) >= HttpQueueLimit
    <3>1. /\ Len(clientQueue) \in Nat /\ HttpQueueLimit \in Nat
          /\ Cardinality(Server!Pending) \in Nat
      BY LenProperties, PendingBounds, HttpAssumption DEF HttpInv, HttpTypeOK
    <3>2. Len(clientQueue) <= Cardinality(Server!Pending)
      BY PendingBounds
    <3> QED
      BY <2>1, <3>1, <3>2
  <2>6. Server!TurnAway(c)
    BY <2>1, <2>3, <2>4, <2>5, SameCardinality, Zenon DEF Server!TurnAway, Server!Move
  <2> QED
    BY <2>6 DEF Server!Next
<1> QED
  BY <1>1, <1>2, <1>3, <1>4, <1>5 DEF HttpKind

(* What a handler does with its connection: nothing, or close it.          *)
LEMMA HandleHttp ==
    ASSUME NEW w \in HttpWorkers, Handle(w)
    PROVE  UNCHANGED httpVars \/ CloseClient(w)
  BY DEF Handle, camera_calibration_start, camera_calibration_reset, camera_calibration_compute,
     camera_calibration_capture, CaptureEnds, camera_calibration_apply, RestartAnswered, WaitEnds,
     OtherRoute, Refuse, Answers, Goes

LEMMA ServiceHttp ==
    ASSUME HttpInv, [Next]_vars
    PROVE  HttpKind
<1>1. HttpStep \/ (\E w \in HttpWorkers : CloseClient(w)) \/ UNCHANGED httpVars
  <2>1. CASE \E w \in HttpWorkers : Handle(w)
    BY <2>1, HandleHttp
  <2>2. CASE Camera
    BY <2>2 DEF Camera
  <2>3. CASE UNCHANGED vars
    BY <2>3 DEF vars
  <2> QED
    BY <2>1, <2>2, <2>3 DEF Next
<1> QED
  BY <1>1, HttpKinds

LEMMA HttpInvHolds == Spec => []HttpInv
<1>1. Init => HttpInv
  BY HttpInitial DEF Init
<1>2. HttpInv /\ [Next]_vars => HttpInv'
  BY ServiceHttp, HttpKeeps
<1> QED
  BY <1>1, <1>2, PTL DEF Spec

(* Every step of the HTTP server, whatever the handlers do, is a step of   *)
(* the bounded server or changes nothing a client can see: the safety half *)
(* of ServesClients, for any number of workers, connections and places in  *)
(* the queue.                                                              *)
THEOREM ServerImplements == Spec => Server!Init /\ [][Server!Next]_(Server!vars)
<1>1. Init => Server!Init
  <2> SUFFICES ASSUME Init PROVE Server!Init
    OBVIOUS
  <2>1. HttpInv /\ running = TRUE /\ Len(clientQueue) = 0
        /\ (\A w \in HttpWorkers : client[w] = NoClient)
        /\ (\A c \in Clients : closed[c] = "open")
    BY HttpInitial DEF Init, HttpInit
  <2>2. \A c \in Clients : c \notin InHand
    BY <2>1, InHandMeans, ClientFacts DEF HttpInv
  <2>3. ClientStatus = [c \in Clients |-> "outside"]
    BY <2>1, <2>2 DEF ClientStatus
  <2> QED
    BY <2>1, <2>3 DEF Server!Init
<1>2. HttpInv /\ [Next]_vars => [Server!Next]_(Server!vars)
  BY ServiceHttp, ServerStep
<1> QED
  BY <1>1, <1>2, HttpInvHolds, PTL DEF Spec

-----------------------------------------------------------------------------
(* The calibration session.  Every critical section of the manager keeps   *)
(* its invariant, and no epoch is forgotten.                               *)

LEMMA CalibrationInitial ==
    ASSUME CalibrationInit
    PROVE  CalibrationInv
<1>1. NoSession \in [active : BOOLEAN, board : Boards \cup {NoBoard}, size : Sizes \cup {NoImage},
                     samples : SUBSET Sample, ready : BOOLEAN, result : SUBSET Sample,
                     epoch : 0..epochs]
      /\ ~NoSession.active /\ ~NoSession.ready
  BY DEF CalibrationInit, NoSession
<1>2. SessionInv
  BY <1>1 DEF CalibrationInit, SessionInv
<1>3. ResultCurrent /\ CameraInv
  BY <1>1 DEF CalibrationInit, ResultCurrent, CameraInv
<1> QED
  BY <1>2, <1>3 DEF CalibrationInv

(* A result that may be applied was computed from something.               *)
LEMMA ReadyIsCalibrated ==
    ASSUME CalibrationInv, session.ready
    PROVE  session.result # Placeholder
<1>1. Cardinality(session.result) >= MinimumSamples /\ MinimumSamples \in Nat /\ MinimumSamples # 0
  BY CalibrationAssumption DEF CalibrationInv, ResultCurrent
<1>2. Cardinality({}) = 0
  BY FS_EmptySet
<1> QED
  BY <1>1, <1>2 DEF Placeholder

(* The steps of the camera, the clock and the callbacks. *)
LEMMA CameraKeeps ==
    ASSUME CalibrationInv, update_frame \/ update_camera_info \/ CameraPublishes
                           \/ CameraRestarts \/ SecondPasses
    PROVE  CalibrationInv' /\ epochs' = epochs
<1>1. UNCHANGED <<session, epochs, calibration>>
  BY DEF update_frame, update_camera_info, CameraPublishes, CameraRestarts, SecondPasses, fileVars
<1>2. ResultCurrent'
  BY <1>1 DEF CalibrationInv, ResultCurrent
<1>3. latestFrame' \in Sizes \cup {NoImage}
  BY DEF CalibrationInv, SessionInv, update_frame, update_camera_info, CameraPublishes,
     CameraRestarts, SecondPasses
<1>4. pending' \in BOOLEAN /\ verified' \in BOOLEAN
  <2>1. CASE update_camera_info
    BY <2>1 DEF CalibrationInv, SessionInv, update_camera_info
  <2>2. CASE ~update_camera_info
    BY <2>2 DEF CalibrationInv, SessionInv, update_frame, CameraPublishes, CameraRestarts, SecondPasses
  <2> QED
    BY <2>1, <2>2
<1>5. SessionInv'
  BY <1>1, <1>3, <1>4 DEF CalibrationInv, SessionInv, Sample
<1>6. CameraInv'
  <2>1. CASE update_camera_info
    BY <2>1 DEF update_camera_info, fileVars, InfoMatches, Calibrated, CalibrationInv, CameraInv
  <2>2. CASE update_frame \/ SecondPasses
    BY <2>2 DEF update_frame, SecondPasses, fileVars, cameraVars, CalibrationInv, CameraInv
  <2>3. CASE CameraPublishes
    BY <2>3 DEF CameraPublishes, fileVars, CalibrationInv, CameraInv
  <2>4. CASE CameraRestarts
    BY <2>4 DEF CameraRestarts, fileVars, CalibrationInv, CameraInv
  <2> QED
    BY <2>1, <2>2, <2>3, <2>4
<1> QED
  BY <1>1, <1>2, <1>5, <1>6 DEF CalibrationInv

(* A step that changes the session, and neither camera nor files. *)
LEMMA SessionFrame ==
    ASSUME CalibrationInv, SessionChanges, SessionInv', ResultCurrent', verified' => verified
    PROVE  CalibrationInv'
<1>1. CameraInv'
  BY DEF CalibrationInv, CameraInv, SessionChanges, fileVars, cameraVars
<1> QED
  BY <1>1 DEF CalibrationInv

LEMMA StartKeeps ==
    ASSUME CalibrationInv, NEW board \in Boards, start(board)
    PROVE  CalibrationInv' /\ epochs' = epochs + 1
<1>1. /\ latestFrame \in Sizes /\ epochs \in Nat /\ epochs' = epochs + 1
      /\ session' = [NoSession EXCEPT !.active = TRUE, !.board = board, !.size = latestFrame,
                                      !.epoch = epochs + 1]
      /\ pending' = FALSE /\ verified' = FALSE
      /\ SessionChanges /\ latestFrame' = latestFrame
  BY DEF start, CalibrationInv, SessionInv, SessionChanges
<1>2. /\ session' = [active |-> TRUE, board |-> board, size |-> latestFrame, samples |-> {},
                     ready |-> FALSE, result |-> {}, epoch |-> epochs + 1]
  BY <1>1 DEF NoSession
<1>3. session' \in [active : BOOLEAN, board : Boards \cup {NoBoard}, size : Sizes \cup {NoImage},
                    samples : SUBSET Sample', ready : BOOLEAN, result : SUBSET Sample',
                    epoch : 0..epochs']
  <2>1. epochs' \in Nat /\ epochs + 1 \in 0..epochs' /\ epochs + 1 > 0
    BY <1>1
  <2>2. latestFrame \in Sizes \cup {NoImage} /\ board \in Boards \cup {NoBoard}
        /\ {} \in SUBSET Sample'
    BY <1>1
  <2> QED
    BY ONLY <1>2, <2>1, <2>2
<1>4. SessionInv'
  <2>1. epochs' \in Nat /\ epochs + 1 > 0
    BY <1>1
  <2>2. session'.board \in Boards /\ session'.size \in Sizes /\ session'.epoch = epochs + 1
    BY <1>1, <1>2
  <2>3. pending' \in BOOLEAN /\ verified' \in BOOLEAN /\ latestFrame' \in Sizes \cup {NoImage}
    BY <1>1
  <2> QED
    BY ONLY <1>3, <2>1, <2>2, <2>3 DEF SessionInv
<1>5. ResultCurrent'
  BY <1>2 DEF ResultCurrent
<1> QED
  BY <1>1, <1>4, <1>5, SessionFrame

LEMMA ResetKeeps ==
    ASSUME CalibrationInv, reset
    PROVE  CalibrationInv' /\ epochs' = epochs
<1>1. /\ session' = NoSession /\ pending' = FALSE /\ verified' = FALSE /\ epochs' = epochs
      /\ SessionChanges /\ latestFrame' = latestFrame /\ epochs \in Nat
  BY DEF reset, SessionChanges, CalibrationInv, SessionInv
<1>2. /\ NoSession \in [active : BOOLEAN, board : Boards \cup {NoBoard}, size : Sizes \cup {NoImage},
                        samples : SUBSET Sample', ready : BOOLEAN, result : SUBSET Sample',
                        epoch : 0..epochs']
      /\ ~NoSession.active /\ ~NoSession.ready
  BY <1>1 DEF NoSession
<1>3. SessionInv'
  BY <1>1, <1>2 DEF CalibrationInv, SessionInv
<1>4. ResultCurrent'
  BY <1>1, <1>2 DEF ResultCurrent
<1> QED
  BY <1>1, <1>3, <1>4, SessionFrame

(* A sample is added, whatever became of the session meanwhile, and the    *)
(* result of the samples before is gone.                                   *)
LEMMA StoreKeeps ==
    ASSUME CalibrationInv, NEW pose \in Poses,
           NEW copied \in [board : Boards, size : Sizes, epoch : 1..epochs],
           StoreSample(copied, pose)
    PROVE  CalibrationInv' /\ epochs' = epochs
<1> DEFINE sample == [board |-> copied.board, size |-> copied.size,
                      epoch |-> copied.epoch, pose |-> pose]
<1>1. /\ session' = [session EXCEPT !.samples = @ \cup {sample}, !.ready = FALSE, !.result = {}]
      /\ UNCHANGED <<epochs, pending, verified>>
      /\ SessionChanges /\ latestFrame' = latestFrame
  BY DEF StoreSample, WithSample, SessionChanges
<1>2. sample \in Sample
  BY DEF Sample
<1>3. Sample' = Sample
  BY <1>1 DEF Sample
<1> HIDE DEF sample
<1>4. /\ session' \in [active : BOOLEAN, board : Boards \cup {NoBoard}, size : Sizes \cup {NoImage},
                       samples : SUBSET Sample, ready : BOOLEAN, result : SUBSET Sample,
                       epoch : 0..epochs]
      /\ session'.active = session.active /\ session'.board = session.board
      /\ session'.size = session.size /\ session'.epoch = session.epoch
      /\ session'.ready = FALSE
  BY <1>1, <1>2 DEF CalibrationInv, SessionInv
<1>5. SessionInv'
  BY <1>1, <1>3, <1>4 DEF CalibrationInv, SessionInv
<1>6. ResultCurrent'
  BY <1>4 DEF ResultCurrent
<1> QED
  BY <1>1, <1>5, <1>6, SessionFrame

LEMMA ComputeKeeps ==
    ASSUME CalibrationInv, compute
    PROVE  CalibrationInv' /\ epochs' = epochs
<1>1. PICK ready \in BOOLEAN :
          session' = [session EXCEPT !.ready = ready,
                                     !.result = IF ready THEN session.samples ELSE {}]
  BY DEF compute
<1>2. /\ session.active /\ Cardinality(session.samples) >= MinimumSamples
      /\ UNCHANGED <<epochs, pending, verified>>
      /\ SessionChanges /\ latestFrame' = latestFrame
  BY DEF compute, ComputeAllowed, SessionChanges
<1>3. Sample' = Sample
  BY <1>2 DEF Sample
<1>4. /\ session' \in [active : BOOLEAN, board : Boards \cup {NoBoard}, size : Sizes \cup {NoImage},
                       samples : SUBSET Sample, ready : BOOLEAN, result : SUBSET Sample,
                       epoch : 0..epochs]
      /\ session'.active = session.active /\ session'.board = session.board
      /\ session'.size = session.size /\ session'.epoch = session.epoch
      /\ session'.samples = session.samples
      /\ session'.ready = ready /\ session'.result = IF ready THEN session.samples ELSE {}
  BY <1>1 DEF CalibrationInv, SessionInv
<1>5. SessionInv'
  BY <1>2, <1>3, <1>4 DEF CalibrationInv, SessionInv
<1>6. ResultCurrent'
  BY <1>2, <1>4 DEF ResultCurrent
<1> QED
  BY <1>2, <1>5, <1>6, SessionFrame

(* The file is written, by an apply that goes well or that fails.          *)
LEMMA ApplyKeeps ==
    ASSUME CalibrationInv, apply \/ ApplyFails
    PROVE  CalibrationInv' /\ epochs' = epochs
<1>1. /\ session.ready /\ calibration' \in {calibration, session.result}
      /\ pending' \in BOOLEAN /\ verified' \in BOOLEAN /\ (verified' => verified)
      /\ UNCHANGED <<session, epochs, latestFrame, loaded, infoTopic>>
  <2>1. pending \in BOOLEAN /\ verified \in BOOLEAN
    BY DEF CalibrationInv, SessionInv
  <2>2. CASE apply
    BY <2>1, <2>2 DEF apply, cameraVars
  <2>3. CASE ApplyFails
    BY <2>1, <2>3 DEF ApplyFails, cameraVars
  <2> QED
    BY <2>2, <2>3
<1>2. SessionInv' /\ ResultCurrent'
  BY <1>1 DEF CalibrationInv, SessionInv, ResultCurrent, Sample
<1>3. CameraInv'
  BY <1>1, ReadyIsCalibrated DEF CalibrationInv, CameraInv
<1> QED
  BY <1>1, <1>2, <1>3 DEF CalibrationInv

LEMMA CalibrationSame ==
    ASSUME CalibrationInv, UNCHANGED calibrationVars
    PROVE  CalibrationInv' /\ epochs' = epochs
  BY DEF CalibrationInv, SessionInv, ResultCurrent, CameraInv, Sample, calibrationVars

-----------------------------------------------------------------------------
(* The handlers. *)

(* A handler that goes to a phase without a copy. *)
LEMMA PhaseKeeps ==
    ASSUME HandlerInv, epochs \in Nat, epochs' \in Nat, epochs' >= epochs,
           NEW w \in HttpWorkers, NEW phase \in {"read", "restart", "verify"},
           handler' = [handler EXCEPT ![w] = [phase |-> phase]]
    PROVE  HandlerInv'
<1>1. 1..epochs \subseteq 1..epochs'
  OBVIOUS
<1>2. /\ handler'[w] = [phase |-> phase]
      /\ \A v \in HttpWorkers : v # w => handler'[v] = handler[v]
      /\ handler' = [v \in HttpWorkers |-> handler'[v]]
  BY DEF HandlerInv
<1> QED
  BY <1>1, <1>2 DEF HandlerInv

LEMMA HandlerSame ==
    ASSUME HandlerInv, UNCHANGED <<handler, epochs>>
    PROVE  HandlerInv'
  BY DEF HandlerInv

LEMMA HandleKeeps ==
    ASSUME CalibrationInv, HandlerInv, NEW w \in HttpWorkers, Handle(w)
    PROVE  CalibrationInv' /\ HandlerInv'
<1> DEFINE Goes2(phase) == handler' = [handler EXCEPT ![w] = [phase |-> phase]]
           Good == /\ CalibrationInv' /\ epochs' \in Nat /\ epochs' >= epochs
                   /\ Goes2("read") \/ Goes2("restart") \/ Goes2("verify")
<1>0. epochs \in Nat
  BY DEF CalibrationInv, SessionInv
<1> SUFFICES Good \/ (CalibrationInv' /\ HandlerInv')
  BY <1>0, PhaseKeeps
<1>1. ASSUME Refuse(w) PROVE Good
  BY <1>0, <1>1, CalibrationSame DEF Refuse, Answers
<1>2. CASE camera_calibration_start(w)
  <2>1. CASE Refuse(w)
    BY <1>1, <2>1
  <2>2. ASSUME NEW board \in Boards, start(board), Answers(w) PROVE Good
    BY <1>0, <2>2, StartKeeps DEF Answers
  <2> QED
    BY <1>2, <2>1, <2>2 DEF camera_calibration_start
<1>3. CASE camera_calibration_reset(w)
  BY <1>0, <1>3, ResetKeeps DEF camera_calibration_reset, Answers
<1>4. CASE camera_calibration_compute(w)
  BY <1>0, <1>1, <1>4, ComputeKeeps DEF camera_calibration_compute, Answers
<1>5. CASE camera_calibration_capture(w)
  <2>1. CASE Refuse(w)
    BY <1>1, <2>1
  <2>2. CASE /\ CaptureAllowed
             /\ handler' = [handler EXCEPT ![w] = [phase |-> "search", copied |-> Copied]]
             /\ UNCHANGED <<httpVars, calibrationVars>>
    <3>1. CalibrationInv' /\ epochs' = epochs
      BY <2>2, CalibrationSame
    <3>2. Copied \in [board : Boards, size : Sizes, epoch : 1..epochs]
      BY <1>0, <2>2 DEF CaptureAllowed, Copied, CalibrationInv, SessionInv
    <3>3. /\ handler'[w] = [phase |-> "search", copied |-> Copied]
          /\ \A v \in HttpWorkers : v # w => handler'[v] = handler[v]
          /\ handler' = [v \in HttpWorkers |-> handler'[v]]
      BY <2>2 DEF HandlerInv
    <3>4. HandlerInv'
      BY <3>1, <3>2, <3>3 DEF HandlerInv
    <3> QED
      BY <3>1, <3>4
  <2> QED
    BY <1>5, <2>1, <2>2 DEF camera_calibration_capture
<1>6. CASE CaptureEnds(w)
  <2>1. CASE Refuse(w)
    BY <1>1, <2>1
  <2>2. ASSUME NEW pose \in Poses, StoreSample(handler[w].copied, pose), Answers(w)
        PROVE  Good
    <3>1. handler[w].copied \in [board : Boards, size : Sizes, epoch : 1..epochs]
      BY <1>6 DEF CaptureEnds, At, HandlerInv
    <3> QED
      BY <1>0, <2>2, <3>1, StoreKeeps DEF Answers
  <2> QED
    BY <1>6, <2>1, <2>2 DEF CaptureEnds
<1>7. CASE camera_calibration_apply(w)
  BY <1>0, <1>1, <1>7, ApplyKeeps DEF camera_calibration_apply, Answers, Goes
<1>8. CASE RestartAnswered(w)
  BY <1>0, <1>1, <1>8, CameraKeeps DEF RestartAnswered, Goes
<1>9. CASE WaitEnds(w) \/ OtherRoute(w)
  BY <1>1, <1>9 DEF WaitEnds, OtherRoute, Refuse
<1> QED
  BY <1>2, <1>3, <1>4, <1>5, <1>6, <1>7, <1>8, <1>9 DEF Handle

LEMMA ServiceInvHolds == Spec => []ServiceInv
<1>1. Init => ServiceInv
  BY HttpInitial, CalibrationInitial DEF Init, ServiceInv, HandlerInv
<1>2. ServiceInv /\ [Next]_vars => ServiceInv'
  <2> SUFFICES ASSUME ServiceInv, [Next]_vars PROVE ServiceInv'
    OBVIOUS
  <2>1. HttpInv'
    BY ServiceHttp, HttpKeeps DEF ServiceInv
  <2>2. CalibrationInv' /\ HandlerInv'
    <3>1. CASE \E w \in HttpWorkers : Handle(w)
      BY <3>1, HandleKeeps DEF ServiceInv
    <3>2. CASE Camera
      BY <3>2, CameraKeeps, HandlerSame DEF Camera, ServiceInv
    <3>3. CASE UNCHANGED <<calibrationVars, handler>>
      BY <3>3, CalibrationSame, HandlerSame DEF ServiceInv
    <3> QED
      BY <3>1, <3>2, <3>3 DEF Next, vars
  <2> QED
    BY <2>1, <2>2 DEF ServiceInv
<1> QED
  BY <1>1, <1>2, PTL DEF Spec

(* Type correctness of the service.                                        *)
THEOREM ServiceTypeCorrect == Spec => []TypeOK
<1>1. ServiceInv => TypeOK
  BY DEF ServiceInv, HttpInv, CalibrationInv, SessionInv, HandlerInv, TypeOK
<1> QED
  BY <1>1, ServiceInvHolds, PTL

(* Whatever requests overlap, a result that may be applied was computed    *)
(* from exactly the samples the session shows.                             *)
THEOREM ServiceResultCurrent == Spec => []ResultCurrent
<1>1. ServiceInv => ResultCurrent
  BY DEF ServiceInv, CalibrationInv
<1> QED
  BY <1>1, ServiceInvHolds, PTL

(* verified_ is never set by a camera that runs without a calibration.     *)
THEOREM ServiceFirstVerified == Spec => []FirstCalibrationVerified
<1>1. ServiceInv => FirstCalibrationVerified
  BY DEF ServiceInv, CalibrationInv, CameraInv, FirstCalibrationVerified
<1> QED
  BY <1>1, ServiceInvHolds, PTL
=============================================================================
