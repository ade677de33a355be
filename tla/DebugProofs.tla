---------------------------- MODULE DebugProofs ----------------------------
(***************************************************************************)
(* Proofs about the two debuggers: the snapshot debugger for any number of *)
(* HTTP workers, of retries and of snapshots it keeps, and the active      *)
(* debug session for any tasks, limits and restarts of the adapter.        *)
(***************************************************************************)
EXTENDS DebugOrchestrator, ActiveDebug, SequenceTheorems, TLAPS

-----------------------------------------------------------------------------
(* The snapshot debugger. *)

Frames == 0..MaxFrames
Artifact == [observation : Frames, preprocess : Frames, inference : Frames]

(* The types the proofs need of the node's locals, the requests and the    *)
(* directory of every run.                                                 *)
NodeTypeInv ==
    /\ queue \in [Services -> Seq([request : Captures \cup RunRequests, waited : BOOLEAN])]
    /\ node \in [at : {"idle", "debug", "step"}, request : RunRequests \cup {Idle},
                 waited : BOOLEAN, snapshot : Frames, attempt : 0..BusyRetryCount]
    /\ artifacts \in Seq(Artifact)
    /\ Len(artifacts) = sequence
    /\ steps \in Nat

(* snapshot_order_ ends with the last run id and has no gap.               *)
OrderInv ==
    /\ snapshotOrder \in Seq(Nat)
    /\ Len(snapshotOrder) = IF sequence < MaxSnapshots THEN sequence ELSE MaxSnapshots
    /\ \A i \in 1..Len(snapshotOrder) :
          snapshotOrder[i] = sequence - Len(snapshotOrder) + i

(* The request a run callback works on passed the tests at its start, and  *)
(* its copy of the snapshot is the observation saved under the run id.     *)
RunInv ==
    node.at # "idle" =>
        LET r == node.request IN
        /\ r \in RunRequests
        /\ r.id \in 1..sequence
        /\ r.of.stage \in {"preprocess", "inference"}
        /\ r.of.execute => r.of.confirmed
        /\ node.snapshot = artifacts[r.id].observation
        /\ node.at = "step" => r.of.execute

(* A request that is being run has moved the vehicle only if its run waits *)
(* for the end of the step.                                                *)
StepInv ==
    /\ steps <= 1
    /\ node.at = "debug" => steps = 0

SnapshotInv ==
    SnapshotTypeOK /\ NodeTypeInv /\ OrderInv /\ SnapshotsFrozen /\ RunInv /\ StepInv

(* What a run request is made of.                                          *)
LEMMA RunFields ==
    ASSUME NEW r \in RunRequests
    PROVE  /\ r # Idle /\ r.id \in RunIds
           /\ r.of.stage \in {"preprocess", "inference", "other"}
           /\ r.of.execute \in BOOLEAN /\ r.of.confirmed \in BOOLEAN
  BY DebugAssumption, IdleAssumption DEF RunRequests

(* A request taken from the head of a queue is one of its service's, and   *)
(* what is left are too.                                                   *)
LEMMA TakeHead ==
    ASSUME SnapshotTypeOK, NodeTypeInv, NEW s \in Services, Take(s)
    PROVE  /\ Head(queue[s]).request \in Requests[s] /\ Head(queue[s]).waited \in BOOLEAN
           /\ queue' \in [Services -> Seq([request : Captures \cup RunRequests, waited : BOOLEAN])]
           /\ \A t \in Services : queue'[t] \in Seq([request : Requests[t], waited : BOOLEAN])
<1> DEFINE Entry(t) == [request : Requests[t], waited : BOOLEAN]
           AnyEntry == [request : Captures \cup RunRequests, waited : BOOLEAN]
<1>1. queue[s] \in Seq(Entry(s)) /\ queue[s] \in Seq(AnyEntry) /\ queue[s] # << >>
  BY DEF SnapshotTypeOK, NodeTypeInv, Take
<1>2. Head(queue[s]) \in Entry(s) /\ Tail(queue[s]) \in Seq(Entry(s)) /\ Tail(queue[s]) \in Seq(AnyEntry)
  <2> HIDE DEF Entry, AnyEntry
  <2> QED
    BY <1>1, HeadTailProperties
<1>3. queue' = [queue EXCEPT ![s] = Tail(queue[s])]
  BY DEF Take
<1>4. queue' \in [Services -> Seq(AnyEntry)]
  <2> HIDE DEF AnyEntry
  <2>1. queue \in [Services -> Seq(AnyEntry)]
    BY DEF NodeTypeInv, AnyEntry
  <2> QED
    BY <1>2, <1>3, <2>1
<1>5. ASSUME NEW t \in Services PROVE queue'[t] \in Seq(Entry(t))
  <2>1. queue[t] \in Seq(Entry(t)) /\ DOMAIN queue = Services
    BY DEF SnapshotTypeOK, NodeTypeInv
  <2> HIDE DEF Entry
  <2> QED
    BY <1>2, <1>3, <2>1
<1> QED
  BY <1>2, <1>4, <1>5

LEMMA SnapshotInitInv == SnapshotInit => SnapshotInv
<1> SUFFICES ASSUME SnapshotInit PROVE SnapshotInv
  OBVIOUS
<1> USE DebugAssumption DEF SnapshotInit, Resting, Services
<1>1. SnapshotTypeOK
  BY DEF SnapshotTypeOK, Modes
<1>2. NodeTypeInv
  BY DEF NodeTypeInv, Frames
<1>3. OrderInv
  BY DEF OrderInv
<1>4. SnapshotsFrozen
  BY DEF SnapshotsFrozen, ToSet
<1>5. RunInv /\ StepInv
  BY DEF RunInv, StepInv
<1> QED
  BY <1>1, <1>2, <1>3, <1>4, <1>5 DEF SnapshotInv

(* What the invariant says of the node depends on the directories, the     *)
(* requests and the steps only.                                            *)
nodeVars == <<snapshots, snapshotOrder, sequence, queue, node, artifacts, steps>>

LEMMA NodeUnchanged ==
    ASSUME SnapshotInv, SnapshotTypeOK', UNCHANGED nodeVars PROVE SnapshotInv'
  BY DEF SnapshotInv, nodeVars, NodeTypeInv, OrderInv, SnapshotsFrozen, RunInv, StepInv

LEMMA TopicsKeepInv ==
    ASSUME SnapshotInv,
           \/ \E new \in Modes : PublishMode(new)
           \/ ReceiveObservation
           \/ ReceiveMode
           \/ \E moving \in BOOLEAN : ReceiveCommand(moving)
           \/ \E field \in DOMAIN received : Ages(field)
    PROVE  SnapshotInv'
<1> USE DebugAssumption DEF SnapshotInv
<1>0. UNCHANGED nodeVars
  BY DEF PublishMode, ReceiveObservation, ReceiveMode, ReceiveCommand, Receive, Ages, nodeVars
<1>1. CASE \E new \in Modes : PublishMode(new)
  BY <1>0, <1>1, NodeUnchanged DEF PublishMode, SnapshotTypeOK
<1>2. ASSUME NEW field \in DOMAIN received, NEW message, Receive(field, message),
             field = "observation" => message \in 0..MaxFrames,
             field = "mode" => message \in Modes,
             field = "moving" => message \in BOOLEAN
      PROVE  SnapshotInv'
  <2>1. received' \in [observation : 0..MaxFrames, mode : Modes, moving : BOOLEAN]
    <3>1. CASE field = "observation"
      BY <1>2, <3>1 DEF Receive, SnapshotTypeOK
    <3>2. CASE field = "mode"
      BY <1>2, <3>2 DEF Receive, SnapshotTypeOK
    <3>3. CASE field = "moving"
      BY <1>2, <3>3 DEF Receive, SnapshotTypeOK
    <3> QED
      BY <1>2, <3>1, <3>2, <3>3 DEF SnapshotTypeOK
  <2>2. DOMAIN received' = DOMAIN received
    BY <2>1 DEF SnapshotTypeOK
  <2>3. recent' \subseteq DOMAIN received'
    BY <1>2, <2>2 DEF Receive, SnapshotTypeOK
  <2> QED
    BY <1>0, <1>2, <2>1, <2>3, NodeUnchanged DEF Receive, SnapshotTypeOK
<1>3. DOMAIN received = {"observation", "mode", "moving"}
      /\ received.observation \in 0..MaxFrames /\ mode \in Modes
  BY DEF SnapshotTypeOK
<1>4. CASE ReceiveObservation
  BY <1>2, <1>3, <1>4 DEF ReceiveObservation
<1>5. CASE ReceiveMode
  BY <1>2, <1>3, <1>5 DEF ReceiveMode
<1>6. CASE \E moving \in BOOLEAN : ReceiveCommand(moving)
  BY <1>2, <1>3, <1>6 DEF ReceiveCommand
<1>7. CASE \E field \in DOMAIN received : Ages(field)
  BY <1>0, <1>7, NodeUnchanged DEF Ages, SnapshotTypeOK
<1> QED
  BY <1>1, <1>4, <1>5, <1>6, <1>7

(* A longer queue, or a worker that gives up, does not concern the node.   *)
LEMMA QueueKeepsInv ==
    ASSUME SnapshotInv, NEW s \in Services,
           (\E r \in Requests[s] : SendRequest(s, r)) \/ RequestTimesOut(s)
    PROVE  SnapshotInv'
<1> USE DEF SnapshotInv
<1> DEFINE Entry(t) == [request : Requests[t], waited : BOOLEAN]
           AnyEntry == [request : Captures \cup RunRequests, waited : BOOLEAN]
<1>0. UNCHANGED <<mode, received, recent, snapshots, snapshotOrder, sequence,
                  node, artifacts, raw, steps>>
  BY DEF SendRequest, RequestTimesOut
<1>1. \A t \in Services : queue[t] \in Seq(Entry(t)) /\ queue[t] \in Seq(AnyEntry)
  BY DEF SnapshotTypeOK, NodeTypeInv
<1>2. queue \in [Services -> Seq(AnyEntry)]
  BY DEF NodeTypeInv
<1>3. PICK q : q \in Seq(Entry(s)) /\ q \in Seq(AnyEntry) /\ queue' = [queue EXCEPT ![s] = q]
  <2>1. ASSUME NEW r \in Requests[s], SendRequest(s, r)
        PROVE  LET q == Append(queue[s], [request |-> r, waited |-> TRUE]) IN
               q \in Seq(Entry(s)) /\ q \in Seq(AnyEntry) /\ queue' = [queue EXCEPT ![s] = q]
    <3>1. [request |-> r, waited |-> TRUE] \in Entry(s) /\ [request |-> r, waited |-> TRUE] \in AnyEntry
      BY DEF Requests, Services
    <3> HIDE DEF Entry, AnyEntry
    <3> QED
      BY <1>1, <2>1, <3>1, AppendProperties DEF SendRequest
  <2>2. ASSUME NEW i \in Waited(s), queue' = [queue EXCEPT ![s][i].waited = FALSE]
        PROVE  LET q == [queue[s] EXCEPT ![i] = [queue[s][i] EXCEPT !.waited = FALSE]] IN
               q \in Seq(Entry(s)) /\ q \in Seq(AnyEntry) /\ queue' = [queue EXCEPT ![s] = q]
    <3> DEFINE e == [queue[s][i] EXCEPT !.waited = FALSE]
    <3>1. i \in 1..Len(queue[s])
      <4> HIDE DEF Entry, AnyEntry
      <4> QED
        BY <1>1, LenProperties DEF Waited
    <3>2. queue[s][i] \in Entry(s) /\ queue[s][i] \in AnyEntry
      <4> HIDE DEF Entry, AnyEntry
      <4> QED
        BY <1>1, <3>1, ElementOfSeq
    <3>3. e \in Entry(s) /\ e \in AnyEntry
      BY <3>2
    <3> HIDE DEF e, Entry, AnyEntry
    <3>4. [queue[s] EXCEPT ![i] = e] \in Seq(Entry(s)) /\ [queue[s] EXCEPT ![i] = e] \in Seq(AnyEntry)
      BY <1>1, <3>1, <3>3, ExceptSeq
    <3> QED
      BY <2>2, <3>4 DEF e
  <2> QED
    BY <2>1, <2>2 DEF RequestTimesOut
<1>4. queue' \in [Services -> Seq(AnyEntry)] /\ \A t \in Services : queue'[t] \in Seq(Entry(t))
  <2> HIDE DEF Entry, AnyEntry
  <2> QED
    BY <1>1, <1>2, <1>3
<1>5. SnapshotTypeOK' /\ NodeTypeInv'
  BY <1>0, <1>4 DEF SnapshotTypeOK, NodeTypeInv
<1>6. OrderInv' /\ SnapshotsFrozen' /\ RunInv' /\ StepInv'
  BY <1>0 DEF OrderInv, SnapshotsFrozen, RunInv, StepInv
<1> QED
  BY <1>5, <1>6

LEMMA GiveUpKeepsInv == ASSUME SnapshotInv, RunTimesOut PROVE SnapshotInv'
<1> USE DEF SnapshotInv, RunTimesOut
<1>1. node'.at = node.at /\ node'.request = node.request /\ node'.snapshot = node.snapshot
      /\ node'.attempt = node.attempt
  BY DEF NodeTypeInv
<1>2. SnapshotTypeOK'
  BY <1>1 DEF SnapshotTypeOK
<1>3. NodeTypeInv'
  BY DEF NodeTypeInv
<1>4. OrderInv' /\ SnapshotsFrozen' /\ RunInv' /\ StepInv'
  BY <1>1 DEF OrderInv, SnapshotsFrozen, RunInv, StepInv
<1> QED
  BY <1>2, <1>3, <1>4

(* A node that rests has nothing to keep.                                  *)
LEMMA RestKeepsInv ==
    ASSUME SnapshotInv, node' = Resting, UNCHANGED <<mode, received, recent>>,
           steps' \in {0, steps},
           \A s \in Services : queue'[s] \in Seq([request : Requests[s], waited : BOOLEAN]),
           queue' \in [Services -> Seq([request : Captures \cup RunRequests, waited : BOOLEAN])]
    PROVE  /\ RunInv' /\ StepInv'
           /\ sequence' \in 0..MaxRuns => SnapshotTypeOK'
           /\ artifacts' \in Seq(Artifact) /\ Len(artifacts') = sequence' => NodeTypeInv'
<1> USE DebugAssumption DEF SnapshotInv, Resting
<1>1. RunInv' /\ StepInv'
  BY DEF RunInv, StepInv
<1>2. sequence' \in 0..MaxRuns => SnapshotTypeOK'
  BY DEF SnapshotTypeOK
<1>3. artifacts' \in Seq(Artifact) /\ Len(artifacts') = sequence' => NodeTypeInv'
  <2>1. node' \in [at : {"idle", "debug", "step"}, request : RunRequests \cup {Idle},
                   waited : BOOLEAN, snapshot : Frames, attempt : 0..BusyRetryCount]
    BY DEF Frames
  <2> QED
    BY <2>1 DEF NodeTypeInv
<1> QED
  BY <1>1, <1>2, <1>3

(* The snapshots kept after a capture: the ids up to the new one, as many  *)
(* as there is room for.                                                   *)
LEMMA KeptIds ==
    ASSUME OrderInv, sequence \in Nat
    PROVE  LET id == sequence + 1
               n == IF id < MaxSnapshots THEN id ELSE MaxSnapshots
           IN  /\ Kept(id) \in Seq(Nat) /\ Len(Kept(id)) = n
               /\ \A i \in 1..n : Kept(id)[i] = id - n + i
               /\ ToSet(Kept(id)) = {r \in 1..id : r > id - MaxSnapshots}
<1> DEFINE id == sequence + 1
           n == IF id < MaxSnapshots THEN id ELSE MaxSnapshots
           all == Append(snapshotOrder, id)
<1> USE DebugAssumption DEF OrderInv
<1>1. all \in Seq(Nat) /\ Len(all) = Len(snapshotOrder) + 1
      /\ Len(snapshotOrder) \in Nat
  BY LenProperties, AppendProperties
<1>2. ASSUME NEW i \in 1..Len(all) PROVE all[i] = id - Len(all) + i
  <2>1. CASE i = Len(all)
    BY <1>1, <2>1, AppendProperties
  <2>2. CASE i \in 1..Len(snapshotOrder)
    <3>1. all[i] = snapshotOrder[i]
      BY <2>2, AppendProperties
    <3>2. snapshotOrder[i] = sequence - Len(snapshotOrder) + i
      BY <2>2
    <3> HIDE DEF all
    <3> QED
      BY <1>1, <3>1, <3>2
  <2> HIDE DEF all
  <2> QED
    BY <1>1, <2>1, <2>2
<1>3. Kept(id) \in Seq(Nat) /\ Len(Kept(id)) = n /\ \A i \in 1..n : Kept(id)[i] = id - n + i
  <2>1. CASE Len(all) > MaxSnapshots
    <3>0. Kept(id) = SubSeq(all, Len(all) - MaxSnapshots + 1, Len(all))
      BY <2>1 DEF Kept
    <3>1. Kept(id) = SubSeq(all, 2, Len(all)) /\ n = Len(all) - 1 /\ n = MaxSnapshots
      <4> HIDE DEF all
      <4>1. Len(all) = MaxSnapshots + 1 /\ n = MaxSnapshots
        BY <1>1, <2>1
      <4>2. Len(all) - MaxSnapshots + 1 = 2 /\ n = Len(all) - 1
        BY <4>1
      <4> QED
        BY <3>0, <4>1, <4>2
    <3> HIDE DEF all
    <3>2. /\ SubSeq(all, 2, Len(all)) \in Seq(Nat)
          /\ Len(SubSeq(all, 2, Len(all))) = n
          /\ \A i \in 1..n : SubSeq(all, 2, Len(all))[i] = all[i + 1]
      BY <1>1, <3>1, SMTT(30)
    <3>3. \A i \in 1..n : i + 1 \in 1..Len(all) /\ all[i + 1] = id - n + i
      BY <1>1, <1>2, <3>1
    <3> QED
      BY <3>1, <3>2, <3>3
  <2>2. CASE Len(all) <= MaxSnapshots
    <3>1. Kept(id) = all /\ n = Len(all)
      BY <1>1, <2>2 DEF Kept
    <3> QED
      BY <1>1, <1>2, <3>1
  <2> QED
    BY <1>1, <2>1, <2>2
<1>4. ToSet(Kept(id)) = {r \in 1..id : r > id - MaxSnapshots}
  <2> HIDE DEF all
  <2>0. n \in Nat /\ id \in Nat /\ n <= id /\ DOMAIN Kept(id) = 1..n
    BY <1>3, LenProperties
  <2>1. ASSUME NEW r \in ToSet(Kept(id)) PROVE r \in 1..id /\ r > id - MaxSnapshots
    <3>1. PICK i \in 1..n : r = id - n + i
      BY <1>3, <2>0, <2>1 DEF ToSet
    <3> QED
      BY <2>0, <3>1
  <2>2. ASSUME NEW r \in 1..id, r > id - MaxSnapshots PROVE r \in ToSet(Kept(id))
    <3>1. r - (id - n) \in 1..n
      BY <2>0, <2>2
    <3>2. Kept(id)[r - (id - n)] = id - n + (r - (id - n))
      BY <1>3, <3>1
    <3>3. id - n + (r - (id - n)) = r
      BY <2>0
    <3> QED
      BY <2>0, <3>1, <3>2, <3>3 DEF ToSet
  <2> QED
    BY <2>1, <2>2
<1> QED
  BY <1>3, <1>4

LEMMA CaptureKeepsInv ==
    ASSUME SnapshotInv, Capture PROVE SnapshotInv'
<1> USE DebugAssumption DEF SnapshotInv
<1>0. /\ node.at = "idle" /\ UNCHANGED <<mode, received, recent, node, raw, steps>>
      /\ \A s \in Services : queue'[s] \in Seq([request : Requests[s], waited : BOOLEAN])
      /\ queue' \in [Services -> Seq([request : Captures \cup RunRequests, waited : BOOLEAN])]
  BY TakeHead DEF Capture, Take, Services
<1>a. RunInv' /\ StepInv'
  BY <1>0 DEF RunInv, StepInv
<1>b. ASSUME sequence' \in 0..MaxRuns, artifacts' \in Seq(Artifact), Len(artifacts') = sequence'
      PROVE  SnapshotTypeOK' /\ NodeTypeInv'
  BY <1>0, <1>b DEF SnapshotTypeOK, NodeTypeInv
<1>1. CASE UNCHANGED <<sequence, snapshotOrder, snapshots, artifacts>>
  <2>1. OrderInv' /\ SnapshotsFrozen'
    BY <1>1 DEF OrderInv, SnapshotsFrozen
  <2> QED
    BY <1>1, <1>a, <1>b, <2>1 DEF NodeTypeInv, SnapshotTypeOK
<1>2. CASE CaptureAllowed(Head(queue["capture"]).request)
  <2> DEFINE id == sequence + 1
             saved == [observation |-> received.observation, preprocess |-> 0, inference |-> 0]
             kept == {r \in 1..id : r > id - MaxSnapshots}
  <2>1. /\ sequence \in Nat /\ sequence' = id /\ id \in 0..MaxRuns
        /\ snapshotOrder' = Kept(id)
        /\ snapshots' = [r \in ToSet(Kept(id)) |->
                            IF r = id THEN received.observation ELSE snapshots[r]]
        /\ artifacts' = Append(artifacts, saved)
    BY <1>2 DEF Capture, SnapshotTypeOK
  <2>2. OrderInv' /\ ToSet(Kept(id)) = kept
    BY <2>1, KeptIds DEF OrderInv
  <2>3. saved \in Artifact
    BY DEF Artifact, Frames, SnapshotTypeOK
  <2>4. /\ artifacts' \in Seq(Artifact) /\ Len(artifacts') = id
        /\ artifacts'[id] = saved
        /\ \A r \in 1..sequence : artifacts'[r] = artifacts[r]
    <3> HIDE DEF saved
    <3> QED
      BY <2>1, <2>3, AppendProperties, LenProperties DEF NodeTypeInv
  <2>5. SnapshotsFrozen'
    <3>1. (ToSet(snapshotOrder) = DOMAIN snapshots)'
      BY <2>1
    <3>2. (DOMAIN snapshots = {r \in 1..sequence : r > sequence - MaxSnapshots})'
      BY <2>1, <2>2
    <3>3. ASSUME NEW r \in DOMAIN snapshots' PROVE snapshots'[r] = artifacts'[r].observation
      <4>0. r \in kept /\ r \in ToSet(Kept(id))
        BY <2>1, <2>2, <3>3
      <4>1. CASE r = id
        BY <2>1, <2>4, <4>0, <4>1
      <4>2. CASE r # id
        <5>1. r \in 1..sequence /\ r \in DOMAIN snapshots
          BY <2>1, <4>0, <4>2 DEF SnapshotsFrozen
        <5>2. snapshots'[r] = snapshots[r]
          BY <2>1, <4>0, <4>2
        <5> QED
          BY <2>4, <5>1, <5>2 DEF SnapshotsFrozen
      <4> QED
        BY <4>1, <4>2
    <3>4. ASSUME NEW r \in 1..sequence', NEW stage \in {"preprocess", "inference"}
          PROVE  artifacts'[r][stage] \in {0, artifacts'[r].observation}
      <4>1. CASE r = id
        BY <2>4, <4>1
      <4>2. CASE r # id
        <5>1. r \in 1..sequence
          BY <2>1, <4>2
        <5> QED
          BY <2>4, <5>1 DEF SnapshotsFrozen
      <4> QED
        BY <4>1, <4>2
    <3> QED
      BY <3>1, <3>2, <3>3, <3>4 DEF SnapshotsFrozen
  <2> QED
    BY <1>a, <1>b, <2>1, <2>2, <2>4, <2>5
<1> QED
  BY <1>1, <1>2 DEF Capture

LEMMA StartKeepsInv == ASSUME SnapshotInv, StartRun PROVE SnapshotInv'
<1> DEFINE r == Head(queue["run"]).request
<1> USE DebugAssumption DEF SnapshotInv
<1>0. /\ node.at = "idle" /\ r \in RunRequests /\ Head(queue["run"]).waited \in BOOLEAN
      /\ \A s \in Services : queue'[s] \in Seq([request : Requests[s], waited : BOOLEAN])
      /\ queue' \in [Services -> Seq([request : Captures \cup RunRequests, waited : BOOLEAN])]
  BY TakeHead DEF StartRun, Take, Services, Requests
<1>1. steps' = 0 /\ UNCHANGED <<mode, received, recent, snapshots, snapshotOrder, sequence,
                                artifacts, raw>>
  BY DEF StartRun
<1>2. OrderInv' /\ SnapshotsFrozen'
  BY <1>1 DEF OrderInv, SnapshotsFrozen
<1>3. CASE node' = Resting
  BY <1>0, <1>1, <1>2, <1>3, RestKeepsInv DEF NodeTypeInv, SnapshotTypeOK
<1>4. CASE RunAllowed(r)
  <2>1. node' = [at |-> "debug", request |-> r, waited |-> Head(queue["run"]).waited,
                 snapshot |-> snapshots[r.id], attempt |-> 0]
    BY <1>4 DEF StartRun, Frozen
  <2> HIDE DEF r
  <2>2. /\ r.of.stage \in {"preprocess", "inference"}
        /\ r.of.execute => r.of.confirmed
        /\ r.id \in DOMAIN snapshots
    BY <1>0, <1>4, RunFields DEF RunAllowed
  <2>3. r.id \in 1..sequence /\ snapshots[r.id] = artifacts[r.id].observation
    BY <2>2 DEF SnapshotsFrozen
  <2>4. artifacts[r.id] \in Artifact
    BY <2>3, ElementOfSeq DEF NodeTypeInv
  <2>5. SnapshotTypeOK'
    BY <1>0, <1>1, <2>1 DEF SnapshotTypeOK
  <2>6. NodeTypeInv'
    <3>1. snapshots[r.id] \in Frames /\ 0 \in 0..BusyRetryCount
      BY <2>3, <2>4 DEF Artifact
    <3>2. node' \in [at : {"idle", "debug", "step"}, request : RunRequests \cup {Idle},
                     waited : BOOLEAN, snapshot : Frames, attempt : 0..BusyRetryCount]
      BY <1>0, <2>1, <3>1
    <3> QED
      BY <1>0, <1>1, <3>2 DEF NodeTypeInv
  <2>7. RunInv'
    BY <1>0, <1>1, <2>1, <2>2, <2>3 DEF RunInv
  <2>8. StepInv'
    BY <1>1 DEF StepInv
  <2> QED
    BY <1>2, <2>5, <2>6, <2>7, <2>8
<1> QED
  BY <1>3, <1>4 DEF StartRun

(* What a run saves comes from the observation of its id.                  *)
LEMMA SaveKeepsFrozen ==
    ASSUME SnapshotInv, node.at # "idle", SaveResult,
           UNCHANGED <<snapshots, snapshotOrder, sequence>>
    PROVE  artifacts' \in Seq(Artifact) /\ Len(artifacts') = sequence /\ SnapshotsFrozen'
<1> DEFINE r == node.request
           id == r.id
           stage == r.of.stage
<1> USE DEF SnapshotInv
<1>1. /\ id \in 1..sequence /\ stage \in {"preprocess", "inference"}
      /\ node.snapshot = artifacts[id].observation /\ node.snapshot \in Frames
  BY DEF RunInv, NodeTypeInv
<1>2. artifacts' = [artifacts EXCEPT ![id] = [artifacts[id] EXCEPT ![stage] = node.snapshot]]
  BY DEF SaveResult
<1> HIDE DEF r, id, stage
<1>3. \A q \in 1..sequence : artifacts[q] \in Artifact
  BY ElementOfSeq DEF NodeTypeInv
<1>4. DOMAIN artifacts = 1..sequence
  BY LenProperties DEF NodeTypeInv
<1> DEFINE new == [artifacts[id] EXCEPT ![stage] = node.snapshot]
<1>5. /\ new \in Artifact /\ new.observation = artifacts[id].observation
      /\ \A s \in {"preprocess", "inference"} : new[s] \in {0, new.observation}
  <2>1. CASE stage = "preprocess"
    BY <1>1, <1>3, <2>1 DEF Artifact, SnapshotsFrozen
  <2>2. CASE stage = "inference"
    BY <1>1, <1>3, <2>2 DEF Artifact, SnapshotsFrozen
  <2> QED
    BY <1>1, <2>1, <2>2
<1>6. /\ artifacts'[id] = new
      /\ \A q \in 1..sequence : q # id => artifacts'[q] = artifacts[q]
  BY <1>1, <1>2, <1>4
<1>7. artifacts' \in Seq(Artifact) /\ Len(artifacts') = sequence
  <2> HIDE DEF new
  <2> QED
    BY <1>1, <1>2, <1>5 DEF NodeTypeInv, new
<1>8. SnapshotsFrozen'
  <2>1. \A q \in 1..sequence : artifacts'[q].observation = artifacts[q].observation
    BY <1>5, <1>6
  <2>2. \A q \in DOMAIN snapshots : snapshots[q] = artifacts'[q].observation
    BY <2>1 DEF SnapshotsFrozen
  <2>3. ASSUME NEW q \in 1..sequence, NEW s \in {"preprocess", "inference"}
        PROVE  artifacts'[q][s] \in {0, artifacts'[q].observation}
    <3> HIDE DEF new
    <3> QED
      BY <1>5, <1>6 DEF SnapshotsFrozen
  <2> QED
    BY <2>2, <2>3 DEF SnapshotsFrozen
<1> QED
  BY <1>7, <1>8

LEMMA WorkKeepsInv == ASSUME SnapshotInv, Work PROVE SnapshotInv'
<1> USE DebugAssumption DEF SnapshotInv
<1>0. /\ node.at # "idle" /\ node.request \in RunRequests
      /\ UNCHANGED <<mode, received, recent, snapshots, snapshotOrder, sequence, queue>>
  BY DEF Work, DebugFails, DebugAnswers, StopStep, RunInv
<1>1. OrderInv'
  BY <1>0 DEF OrderInv
<1>2. ASSUME node' = Resting, UNCHANGED <<artifacts, steps>> PROVE SnapshotInv'
  <2>1. SnapshotsFrozen'
    BY <1>0, <1>2 DEF SnapshotsFrozen
  <2> QED
    BY <1>0, <1>1, <1>2, <2>1, RestKeepsInv DEF NodeTypeInv, SnapshotTypeOK
<1>3. ASSUME node' = Resting, SaveResult, UNCHANGED steps PROVE SnapshotInv'
  BY <1>0, <1>1, <1>3, SaveKeepsFrozen, RestKeepsInv DEF NodeTypeInv, SnapshotTypeOK
<1>4. ASSUME NEW busy \in BOOLEAN, DebugFails(busy) PROVE SnapshotInv'
  <2>1. CASE MayRetry /\ node' = [node EXCEPT !.attempt = @ + 1]
    <3>1. node'.attempt \in 0..BusyRetryCount /\ node'.at = node.at
          /\ node'.request = node.request /\ node'.snapshot = node.snapshot
      BY <2>1 DEF MayRetry, NodeTypeInv
    <3>2. SnapshotTypeOK'
      BY <1>0, <2>1, <3>1 DEF SnapshotTypeOK
    <3>3. NodeTypeInv'
      BY <1>0, <1>4, <2>1, <3>1 DEF NodeTypeInv, DebugFails
    <3>4. SnapshotsFrozen' /\ RunInv' /\ StepInv'
      BY <1>0, <1>4, <2>1, <3>1 DEF SnapshotsFrozen, RunInv, StepInv, DebugFails
    <3> QED
      BY <1>1, <3>2, <3>3, <3>4
  <2>2. CASE node' = Resting
    BY <1>2, <1>4, <2>2 DEF DebugFails
  <2> QED
    BY <1>4, <2>1, <2>2 DEF DebugFails
<1>5. ASSUME NEW compatible \in BOOLEAN, DebugAnswers(compatible) PROVE SnapshotInv'
  <2>1. CASE /\ node.request.of.execute
             /\ steps' = steps + 1
             /\ node' = [node EXCEPT !.at = "step"]
             /\ UNCHANGED artifacts
    <3>1. node'.at = "step" /\ node'.attempt = node.attempt /\ node'.request = node.request
          /\ node'.snapshot = node.snapshot
      BY <2>1 DEF NodeTypeInv
    <3>2. steps = 0
      BY <1>5 DEF DebugAnswers, StepInv
    <3>3. SnapshotTypeOK'
      BY <1>0, <2>1, <3>1 DEF SnapshotTypeOK
    <3>4. NodeTypeInv'
      <4>1. node' \in [at : {"idle", "debug", "step"}, request : RunRequests \cup {Idle},
                       waited : BOOLEAN, snapshot : Frames, attempt : 0..BusyRetryCount]
        BY <2>1 DEF NodeTypeInv
      <4>2. steps' \in Nat
        BY <2>1, <3>2
      <4> QED
        BY <1>0, <2>1, <4>1, <4>2 DEF NodeTypeInv
    <3>5. SnapshotsFrozen' /\ RunInv'
      BY <1>0, <2>1, <3>1 DEF SnapshotsFrozen, RunInv
    <3>6. StepInv'
      BY <2>1, <3>1, <3>2 DEF StepInv
    <3> QED
      BY <1>1, <3>3, <3>4, <3>5, <3>6
  <2> QED
    BY <1>2, <1>3, <1>5, <2>1 DEF DebugAnswers, Answer
<1>6. CASE StopStep
  BY <1>3, <1>6 DEF StopStep, Answer
<1> QED
  BY <1>4, <1>5, <1>6 DEF Work

LEMMA SnapshotStepInv == SnapshotInv /\ [SnapshotNext]_snapshotVars => SnapshotInv'
<1> SUFFICES ASSUME SnapshotInv, [SnapshotNext]_snapshotVars PROVE SnapshotInv'
  OBVIOUS
<1>1. CASE UNCHANGED snapshotVars
  <2>1. SnapshotTypeOK' /\ UNCHANGED nodeVars
    BY <1>1 DEF SnapshotInv, SnapshotTypeOK, snapshotVars, nodeVars
  <2> QED
    BY <2>1, NodeUnchanged
<1> QED
  BY <1>1, TopicsKeepInv, QueueKeepsInv, GiveUpKeepsInv, CaptureKeepsInv, StartKeepsInv,
     WorkKeepsInv
     DEF SnapshotNext

(* Type correctness of vla_debug_orchestrator and its requests.            *)
THEOREM SnapshotTypeCorrect == SnapshotSpec => []SnapshotTypeOK
<1>1. SnapshotInv => SnapshotTypeOK
  BY DEF SnapshotInv
<1> QED
  BY <1>1, SnapshotInitInv, SnapshotStepInv, PTL DEF SnapshotSpec

(* A run id of vla_debug_orchestrator stands for one observation: the      *)
(* snapshot under it and every result saved for it come from what its      *)
(* capture saved, and the newest max_snapshots ids are the ones kept.      *)
THEOREM SnapshotIdsFrozen == SnapshotSpec => []SnapshotsFrozen
<1>1. SnapshotInv => SnapshotsFrozen
  BY DEF SnapshotInv
<1> QED
  BY <1>1, SnapshotInitInv, SnapshotStepInv, PTL DEF SnapshotSpec

(* However often the provider is busy and whoever still waits, a run       *)
(* request moves the vehicle at most once, and only a confirmed one.       *)
THEOREM SnapshotStepOnce == SnapshotSpec => []StepOnce
<1>1. SnapshotInv => StepOnce
  <2> SUFFICES ASSUME SnapshotInv PROVE StepOnce
    OBVIOUS
  <2>1. steps \in Nat /\ steps <= 1 /\ node.at \in {"idle", "debug", "step"}
    BY DEF SnapshotInv, StepInv, NodeTypeInv
  <2>2. CASE steps = 0
    BY <2>2 DEF StepOnce
  <2>3. CASE steps = 1
    <3>1. node.at # "debug"
      BY <2>3 DEF SnapshotInv, StepInv
    <3>2. node.at # "idle" => node.request.of.execute /\ node.request.of.confirmed
      BY <2>1, <3>1 DEF SnapshotInv, RunInv
    <3> QED
      BY <2>3, <3>2 DEF StepOnce
  <2> QED
    BY <2>1, <2>2, <2>3
<1> QED
  BY <1>1, SnapshotInitInv, SnapshotStepInv, PTL DEF SnapshotSpec

-----------------------------------------------------------------------------
(* The active debug session. *)

NotLater(a, b) == a.run < b.run \/ (a.run = b.run /\ a.id <= b.id)

Observation == [id : 0..MaxObservations, run : Nat, task : Tasks \cup {NoTask}]

(* Observations are delivered in order: what the session counted is not    *)
(* later than the trace, the trace not later than what the aggregator has, *)
(* and that not later than the topic.                                      *)
DeliveryInv ==
    /\ observation \in Observation /\ observed \in Observation
    /\ trace.observation \in Observation /\ counted \in Observation
    /\ adapterTask \in Tasks \cup {NoTask} /\ task \in Tasks \cup {NoTask}
    /\ NotLater(counted, trace.observation)
    /\ NotLater(trace.observation, observed)
    /\ NotLater(observed, observation)

(* The id a session remembers is that of the observation it counted; until *)
(* it has counted one it waits for its task.                               *)
CountInv ==
    session.status \in Active =>
        /\ session.steps = 0 => session.waiting /\ session.last = 0
        /\ session.steps > 0 => session.last = counted.id

ActiveInv == SessionTypeOK /\ DeliveryInv /\ CountInv

(* A tick decides on one of three states.                                  *)
LEMMA VerdictType == Verdict \in {"RUNNING", "SUCCEEDED", "FAILED"}
  BY Zenon DEF Verdict

LEMMA ActiveInitInv == ActiveInit => ActiveInv
<1> SUFFICES ASSUME ActiveInit PROVE ActiveInv
  OBVIOUS
<1> USE TraceAssumption, SessionAssumption
        DEF ActiveInit, TraceInit, SessionInit, NoObservation, NoTrace
<1>1. NoObservation \in Observation
  BY DEF Observation
<1>2. SessionTypeOK
  BY DEF SessionTypeOK, Active, Ended
<1>3. DeliveryInv
  BY <1>1 DEF DeliveryInv, NotLater
<1>4. CountInv
  BY DEF CountInv, Active
<1> QED
  BY <1>2, <1>3, <1>4 DEF ActiveInv

(* Nobody but the routes and the timer touches the session, and the        *)
(* pipeline passes observations on in their order.                         *)
LEMMA PipelineKeepsInv ==
    ASSUME ActiveInv, PipelineStep PROVE ActiveInv'
<1> USE TraceAssumption, SessionAssumption
        DEF ActiveInv, PipelineStep, SessionTypeOK, DeliveryInv
<1>1. CountInv'
  BY DEF CountInv
<1>2. CASE AdapterReceivesTask
  BY <1>1, <1>2 DEF AdapterReceivesTask
<1>3. CASE publish_observation
  <2>1. observation' = [observation EXCEPT !.id = observation.id + 1, !.task = adapterTask]
        /\ observation.id + 1 \in 0..MaxObservations
    BY <1>3 DEF publish_observation, Observation
  <2>2. observation' \in Observation
    BY <2>1 DEF Observation
  <2>3. NotLater(observed, observation)'
    BY <1>3, <2>1 DEF publish_observation, Observation, NotLater
  <2> QED
    BY <1>1, <1>3, <2>2, <2>3 DEF publish_observation
<1>4. CASE AdapterRestarts
  <2>1. observation' \in Observation /\ NotLater(observed, observation)'
    BY <1>4 DEF AdapterRestarts, NoObservation, Observation, NotLater
  <2> QED
    BY <1>1, <1>4, <2>1 DEF AdapterRestarts
<1>5. CASE \E image \in Images : update_observation(image)
  <2>1. NotLater(observed, observation)' /\ NotLater(trace.observation, observed)'
    BY <1>5 DEF update_observation, Observation, NotLater
  <2>2. observed'.id \in 0..MaxObservations
    BY <1>5 DEF update_observation, Observation
  <2> QED
    BY <1>1, <1>5, <2>1, <2>2 DEF update_observation
<1>6. CASE \E message \in EpisodeMessages : update_episode(message)
  BY <1>1, <1>6 DEF update_episode
<1>7. CASE \E stage \in Reporting : update_stage(stage)
  BY <1>1, <1>7 DEF update_stage
<1>8. CASE \E stale \in SUBSET AgeBounded : publish(stale)
  <2>1. PICK stale \in SUBSET AgeBounded : publish(stale)
    BY <1>8
  <2>2. trace'.observation = observed /\ DOMAIN trace'.stages = Stages
    BY <2>1 DEF publish, Outcomes, Stages, StageOrder
  <2>3. NotLater(counted, trace.observation)' /\ NotLater(trace.observation, observed)'
    BY <2>1, <2>2 DEF publish, Observation, NotLater
  <2> QED
    BY <1>1, <2>1, <2>2, <2>3 DEF publish
<1> QED
  BY <1>2, <1>3, <1>4, <1>5, <1>6, <1>7, <1>8 DEF TraceNext

(* A tick counts the observation of the trace or none.                     *)
LEMMA TickKeepsInv ==
    ASSUME ActiveInv, NEW due \in BOOLEAN, active_debug_tick(due) PROVE ActiveInv'
<1> USE TraceAssumption, SessionAssumption DEF ActiveInv, active_debug_tick
<1>1. session.status = "RUNNING" /\ UNCHANGED traceVars
  BY DEF Ticking
<1>2. CASE \E status \in Ended : End(status)
  <2>1. PICK status \in Ended : End(status)
    BY <1>2
  <2>2. SessionTypeOK'
    BY <1>1, <2>1 DEF SessionTypeOK, End, Active, Ended, traceVars
  <2>3. DeliveryInv'
    BY <1>1, <2>1 DEF DeliveryInv, End, traceVars
  <2>4. CountInv'
    BY <2>1 DEF CountInv, End, Active, Ended, SessionTypeOK
  <2> QED
    BY <2>2, <2>3, <2>4
<1>3. CASE Step /\ ~StepLimit
  <2>1. SessionTypeOK'
    <3>1. session.steps + 1 \in 0..MaxSteps
      BY <1>3 DEF SessionTypeOK, StepLimit
    <3>2. /\ session' = [session EXCEPT !.waiting = FALSE, !.last = trace.observation.id,
                                       !.steps = session.steps + 1, !.status = Verdict]
          /\ trace.observation.id \in 0..MaxObservations
          /\ Verdict \in {"IDLE"} \cup Active \cup Ended
      BY <1>3, VerdictType DEF Step, SessionTypeOK, Active, Ended
    <3>3. session' \in [status : {"IDLE"} \cup Active \cup Ended, task : Tasks \cup {NoTask},
                        baseline : 0..MaxObservations, waiting : BOOLEAN,
                        last : 0..MaxObservations, steps : 0..MaxSteps]
      BY <3>1, <3>2 DEF SessionTypeOK
    <3> QED
      BY <1>1, <3>3 DEF SessionTypeOK, traceVars
  <2>2. NotLater(counted', trace.observation)
    BY <1>3 DEF Step, NotLater, DeliveryInv, Observation
  <2>3. DeliveryInv'
    BY <1>1, <1>3, <2>2 DEF DeliveryInv, Step, traceVars
  <2>4. CountInv'
    BY <1>3 DEF CountInv, Step, SessionTypeOK
  <2> QED
    BY <2>1, <2>3, <2>4
<1>4. CASE UNCHANGED <<session, counted>>
  BY <1>1, <1>4 DEF SessionTypeOK, DeliveryInv, CountInv, traceVars
<1>5. CASE /\ session' = [session EXCEPT !.waiting = FALSE]
           /\ UNCHANGED counted
           /\ session.steps > 0
  <2>1. SessionTypeOK'
    BY <1>1, <1>5 DEF SessionTypeOK, Active, Ended, traceVars
  <2>2. DeliveryInv'
    BY <1>1, <1>5 DEF DeliveryInv, traceVars
  <2>3. CountInv'
    BY <1>5 DEF CountInv, SessionTypeOK
  <2> QED
    BY <2>1, <2>2, <2>3
<1>6. CASE Look(due) /\ ~StepLimit
  <2>1. CASE session.waiting /\ (trace = NoTrace \/ ~Synchronised)
    BY <1>2, <1>4, <1>6, <2>1 DEF Look, Ended
  <2>2. CASE /\ ~(session.waiting /\ (trace = NoTrace \/ ~Synchronised))
             /\ trace # NoTrace /\ due /\ trace.observation.id \notin {0, session.last}
    BY <1>3, <1>6, <2>2 DEF Look
  <2>3. CASE /\ ~(session.waiting /\ (trace = NoTrace \/ ~Synchronised))
             /\ ~(trace # NoTrace /\ due /\ trace.observation.id \notin {0, session.last})
    <3>1. session' = [session EXCEPT !.waiting = FALSE] /\ UNCHANGED counted
      BY <1>6, <2>3 DEF Look
    <3>2. session.steps > 0
      <4>1. SUFFICES ASSUME session.steps = 0 PROVE FALSE
        BY DEF SessionTypeOK
      <4>2. session.waiting /\ session.last = 0 /\ due
        BY <1>1, <4>1 DEF CountInv, Active
      <4> QED
        BY <2>3, <4>2 DEF Synchronised
    <3> QED
      BY <1>5, <3>1, <3>2
  <2> QED
    BY <2>1, <2>2, <2>3
<1> QED
  BY <1>2, <1>6 DEF Ended, SessionTypeOK, StepLimit

LEMMA ActiveStepInv == ActiveInv /\ [ActiveNext]_activeVars => ActiveInv'
<1> SUFFICES ASSUME ActiveInv, [ActiveNext]_activeVars PROVE ActiveInv'
  OBVIOUS
<1> USE TraceAssumption, SessionAssumption DEF ActiveInv
<1>1. ASSUME NEW t \in Tasks, active_debug_create(t) PROVE ActiveInv'
  <2>0. NoObservation \in Observation /\ trace.observation.id \in 0..MaxObservations
    BY DEF Observation, NoObservation, SessionTypeOK
  <2>1. NotLater(NoObservation, trace.observation)
    BY DEF NotLater, DeliveryInv, Observation, NoObservation
  <2>2. SessionTypeOK'
    BY <1>1, <2>0 DEF active_debug_create, PublishTask, SessionTypeOK, Active
  <2>3. DeliveryInv'
    BY <1>1, <2>0, <2>1 DEF active_debug_create, PublishTask, DeliveryInv
  <2>4. CountInv'
    BY <1>1 DEF active_debug_create, CountInv
  <2> QED
    BY <2>2, <2>3, <2>4
<1>2. ASSUME NEW t \in Tasks, OtherTask(t) PROVE ActiveInv'
  BY <1>2 DEF OtherTask, PublishTask, sessionVars, SessionTypeOK, DeliveryInv, CountInv
<1>3. ASSUME NEW from \in SUBSET Active, NEW to \in Active \cup Ended,
             active_debug_control(from, to)
      PROVE ActiveInv'
  <2>1. session.status \in Active
    BY <1>3 DEF active_debug_control
  <2>2. SessionTypeOK'
    BY <1>3 DEF active_debug_control, SessionTypeOK, traceVars
  <2>3. DeliveryInv'
    BY <1>3 DEF active_debug_control, DeliveryInv, traceVars
  <2>4. CountInv'
    BY <1>3, <2>1 DEF active_debug_control, CountInv, SessionTypeOK
  <2> QED
    BY <2>2, <2>3, <2>4
<1>4. CASE TimePasses
  BY <1>4 DEF TimePasses, traceVars, SessionTypeOK, DeliveryInv, CountInv
<1>5. CASE UNCHANGED activeVars
  BY <1>5 DEF activeVars, traceVars, sessionVars, SessionTypeOK, DeliveryInv, CountInv
<1>6. {"RUNNING"} \in SUBSET Active /\ {"PAUSED"} \in SUBSET Active /\ Active \in SUBSET Active
      /\ "RUNNING" \in Active \cup Ended /\ "PAUSED" \in Active \cup Ended
      /\ "STOPPED" \in Active \cup Ended
  BY DEF Active, Ended
<1> QED
  BY <1>1, <1>2, <1>3, <1>4, <1>5, <1>6, TickKeepsInv, PipelineKeepsInv DEF ActiveNext

(* Type correctness of the active debug session and of the trace it        *)
(* follows: the limits of a session are never exceeded.                    *)
THEOREM SessionTypeCorrect == ActiveSpec => []SessionTypeOK
<1>1. ActiveInv => SessionTypeOK
  BY DEF ActiveInv
<1> QED
  BY <1>1, ActiveInitInv, ActiveStepInv, PTL DEF ActiveSpec

(* active_debug_tick counts no observation twice and never goes back,      *)
(* whatever the adapter's restarts do to the ids, and its first step is on *)
(* an observation that carries the task of the session.                    *)
THEOREM SessionStepsNew == ActiveSpec => StepsNew
<1> DEFINE Counts ==
        session'.steps > session.steps =>
          /\ session.status = "RUNNING"
          /\ session.steps > 0 => Later(counted, counted')
          /\ session.steps = 0 => counted'.task = session.task
<1>1. ASSUME ActiveInv, [ActiveNext]_activeVars PROVE Counts
  <2> SUFFICES ASSUME session'.steps > session.steps
               PROVE  /\ session.status = "RUNNING"
                      /\ session.steps > 0 => Later(counted, counted')
                      /\ session.steps = 0 => counted'.task = session.task
    OBVIOUS
  <2> USE <1>1 DEF ActiveInv
  <2>1. PICK due \in BOOLEAN : active_debug_tick(due)
    <3>1. ASSUME NEW t \in Tasks, active_debug_create(t) PROVE FALSE
      BY <3>1 DEF active_debug_create, SessionTypeOK
    <3>2. ASSUME NEW from, NEW to, active_debug_control(from, to) PROVE FALSE
      BY <3>2 DEF active_debug_control, SessionTypeOK
    <3>3. session' # session
      BY DEF SessionTypeOK
    <3> QED
      BY <3>1, <3>2, <3>3
         DEF ActiveNext, OtherTask, TimePasses, PipelineStep, sessionVars, activeVars
  <2>2. session.status = "RUNNING" /\ (session.steps = 0 => due)
    BY <2>1 DEF active_debug_tick, Ticking
  <2>3. Step /\ ~(session.waiting /\ ~Synchronised)
        /\ trace.observation.id \notin {0, session.last}
    <3>1. ASSUME NEW status, End(status) PROVE FALSE
      BY <3>1 DEF End, SessionTypeOK
    <3>2. Look(due)
      BY <2>1, <3>1 DEF active_debug_tick
    <3>3. session' # session /\ session' # [session EXCEPT !.waiting = FALSE]
      BY DEF SessionTypeOK
    <3> QED
      BY <3>1, <3>2, <3>3 DEF Look
  <2>4. ASSUME session.steps > 0 PROVE Later(counted, counted')
    <3>1. counted' = trace.observation /\ counted.id # trace.observation.id
      BY <2>2, <2>3, <2>4 DEF Step, CountInv, Active
    <3> QED
      BY <3>1 DEF Later, NotLater, DeliveryInv, Observation
  <2>5. ASSUME session.steps = 0 PROVE counted'.task = session.task
    <3>1. session.waiting
      BY <2>2, <2>5 DEF CountInv, Active
    <3> QED
      BY <2>3, <3>1 DEF Step, Synchronised
  <2> QED
    BY <2>2, <2>4, <2>5
<1>2. ActiveInv /\ [ActiveNext]_activeVars => [Counts]_activeVars
  BY <1>1
<1>3. StepsNew <=> [][Counts]_activeVars
  BY PTL DEF StepsNew
<1> HIDE DEF Counts
<1> QED
  BY <1>2, <1>3, ActiveInitInv, ActiveStepInv, PTL DEF ActiveSpec
=============================================================================
