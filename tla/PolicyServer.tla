---------------------------- MODULE PolicyServer ----------------------------
(***************************************************************************)
(* The policy runtime's socket server with the SmolVLA provider: one       *)
(* thread per connection, and one lock that a prediction or a debug run    *)
(* takes without waiting.  A worker outlives a client that gave up.        *)
(***************************************************************************)
EXTENDS Integers

CONSTANTS
    Workers,            \* bound: connection threads alive at once
    NoWorker, Debug,    \* nobody, or a debug run, holds the lock
    ResponseValidity    \* control_period * number of actions + margin

ASSUME ServerAssumption ==
    /\ NoWorker \notin Workers /\ Debug \notin Workers /\ NoWorker # Debug
    /\ ResponseValidity \in Nat

VARIABLES
    server,        \* "down", "serving", or "broken": up, model not loaded
    phase,         \* of each worker: "free", "received", "inferring", "error", "done"
    obsUntil,      \* valid_until_ns of the request each worker has
    response,      \* valid_until_ns of each worker's response
    predictLock    \* holder of _predict_lock

serverVars == <<server, phase, obsUntil, response, predictLock>>

ServerInit ==
    /\ server = "down"
    /\ phase = [w \in Workers |-> "free"]
    /\ obsUntil = [w \in Workers |-> 0]
    /\ response = [w \in Workers |-> 0]
    /\ predictLock = NoWorker

(* serve: the provider is created before the socket is bound. *)
ServerStart ==
    /\ server = "down"
    /\ server' \in {"serving", "broken"}
    /\ UNCHANGED <<phase, obsUntil, response, predictLock>>

(* The process ends with its daemon threads. *)
ServerCrash ==
    /\ server # "down"
    /\ server' = "down"
    /\ phase' = [w \in Workers |-> "free"]
    /\ obsUntil' = [w \in Workers |-> 0]
    /\ response' = [w \in Workers |-> 0]
    /\ predictLock' = NoWorker

(* accept, and a thread that has read the request. *)
Accept(w, until) ==
    /\ server # "down"
    /\ phase[w] = "free"
    /\ phase' = [phase EXCEPT ![w] = "received"]
    /\ obsUntil' = [obsUntil EXCEPT ![w] = until]
    /\ UNCHANGED <<server, response, predictLock>>

(* provider.predict: the checks (a schema and a task among them), and the  *)
(* attempt to take the lock.                                               *)
BeginInference(w, t, wellFormed) ==
    /\ phase[w] = "received"
    /\ IF server = "serving" /\ wellFormed /\ obsUntil[w] > t /\ predictLock = NoWorker
       THEN /\ predictLock' = w
            /\ phase' = [phase EXCEPT ![w] = "inferring"]
       ELSE /\ phase' = [phase EXCEPT ![w] = "error"]
            /\ UNCHANGED predictLock
    /\ UNCHANGED <<server, obsUntil, response>>

(* Mutant: an exception leaves the lock taken. *)
EndInference_KeepsLock(w, t, ok) ==
    /\ phase[w] = "inferring"
    /\ predictLock' = IF ok THEN NoWorker ELSE predictLock
    /\ phase' = [phase EXCEPT ![w] = IF ok THEN "done" ELSE "error"]
    /\ response' = [response EXCEPT ![w] = IF ok THEN t + ResponseValidity ELSE 0]
    /\ UNCHANGED <<server, obsUntil>>

(* The inference returns, or raises (an answer without actions counts as   *)
(* such for the client); the lock is released either way.                  *)
EndInference(w, t, ok) ==
    /\ phase[w] = "inferring"
    /\ predictLock' = NoWorker
    /\ phase' = [phase EXCEPT ![w] = IF ok THEN "done" ELSE "error"]
    /\ response' = [response EXCEPT ![w] = IF ok THEN t + ResponseValidity ELSE 0]
    /\ UNCHANGED <<server, obsUntil>>

(* The response is sent, or the send fails: the thread ends. *)
Retire(w) ==
    /\ phase[w] \in {"done", "error"}
    /\ phase' = [phase EXCEPT ![w] = "free"]
    /\ obsUntil' = [obsUntil EXCEPT ![w] = 0]
    /\ response' = [response EXCEPT ![w] = 0]
    /\ UNCHANGED <<server, predictLock>>

(* A debug request's run takes the same lock. *)
DebugBegins ==
    /\ server = "serving" /\ predictLock = NoWorker
    /\ predictLock' = Debug
    /\ UNCHANGED <<server, phase, obsUntil, response>>

DebugEnds ==
    /\ predictLock = Debug
    /\ predictLock' = NoWorker
    /\ UNCHANGED <<server, phase, obsUntil, response>>
=============================================================================
