------------------------ MODULE PolicyPipelineProofs ------------------------
(***************************************************************************)
(* How old a picture the policy drives on, for every value of the          *)
(* timeouts, depths, horizon and number of workers.                        *)
(*                                                                         *)
(* The image's age is bounded hop by hop: an observation ends within the   *)
(* image and observation deadlines of its image, a prediction begins       *)
(* before its observation ends and lasts what its transaction takes, an    *)
(* action ends within its validity of the answer, and samples are played   *)
(* only until their action ends.  SightInv carries each hop's bound in the *)
(* type of the variable that holds it.                                     *)
(***************************************************************************)
EXTENDS PolicyPipeline, FiniteSetTheorems, TLAPS

FreshObservation ==
    {o \in Observation : o.validUntil <= o.imageAt + ImageTimeout + ObsValidity}

BoundedAction == {a \in Action : a.validUntil <= a.imageAt + SightBound(a.took)}

BoundedSample(until) == {s \in Sample : until <= s.imageAt + SightBound(s.took)}

(* The inductive invariant behind FreshSight: every observation, action    *)
(* and sample on its way through the pipeline ends soon enough after its   *)
(* image was received.                                                     *)
SightInv ==
    /\ now \in Nat /\ imageAt \in Nat /\ obsSequence \in Nat /\ adapterRun \in Nat
    /\ chunks \in Nat
    /\ obsTopic \in Seq(FreshObservation)
    /\ taken \subseteq FreshObservation
    /\ observation \in FreshObservation
    /\ predicting \in FreshObservation
    /\ predictSince \in Nat
    /\ predicting # NoObservation => /\ predictSince <= predicting.validUntil
                                     /\ predictSince <= now
    /\ actionTopic \in Seq(BoundedAction)
    /\ actionsUntil \in Nat
    /\ actions \in Seq(BoundedSample(actionsUntil))
    /\ vlaCommand \in Command
    /\ FreshSight

sightVars == <<now, imageAt, obsSequence, adapterRun, chunks, obsTopic, taken,
               observation, predicting, predictSince, actionTopic,
               actionsUntil, actions, vlaCommand>>

USE AdapterAssumption, GatewayTimeAssumption, PipelineAssumption, HorizonAssumption

-----------------------------------------------------------------------------
(* A keep-last topic holds nothing but what was published to it. *)
LEMMA RetainedType ==
    ASSUME NEW S, NEW q \in Seq(S), NEW x \in S, NEW d \in Nat \ {0}
    PROVE  Retained(Append(q, x), d) \in Seq(S)
<1> DEFINE r == Append(q, x)
<1>1. r \in Seq(S)
  OBVIOUS
<1>2. CASE Len(r) <= d
  BY <1>1, <1>2 DEF Retained
<1>3. CASE ~(Len(r) <= d)
  <2>1. Len(r) \in Nat /\ Len(r) - d + 1 \in 1..Len(r)
    BY <1>1, <1>3
  <2>2. SubSeq(r, Len(r) - d + 1, Len(r)) \in Seq(S)
    BY <1>1, <2>1
  <2> QED
    BY <1>3, <2>2 DEF Retained
<1> QED
  BY <1>2, <1>3

(* The observation the adapter publishes ends within the image and         *)
(* observation deadlines of the image it carries.                          *)
LEMMA PublishedFresh ==
    ASSUME SightInv, ObservationDue(now)
    PROVE  NextObservation(now) \in FreshObservation
<1> DEFINE o == NextObservation(now)
<1>1. /\ now \in Nat /\ imageAt \in Nat /\ obsSequence \in Nat /\ adapterRun \in Nat
      /\ now - imageAt <= ImageTimeout
  BY DEF SightInv, ObservationDue
<1>2. o \in Observation
  BY <1>1 DEF NextObservation, Observation
<1>3. o.validUntil = now + ObsValidity /\ o.imageAt = imageAt
  BY DEF NextObservation
<1>4. o.validUntil <= o.imageAt + ImageTimeout + ObsValidity
  BY <1>1, <1>3
<1> QED
  BY <1>2, <1>4 DEF FreshObservation

(* Nothing the invariant speaks of changes: it holds still. *)
LEMMA SightStutter ==
    ASSUME SightInv, UNCHANGED sightVars
    PROVE  SightInv'
BY DEF SightInv, sightVars, FreshSight, BoundedSample, SightBound

(* No image, no observation and no chunk is known at first. *)
LEMMA SightInit == Init => SightInv
<1> SUFFICES ASSUME Init PROVE SightInv
  OBVIOUS
<1>1. NoObservation \in FreshObservation
  BY DEF NoObservation, FreshObservation, Observation
<1>2. FreshSight
  BY DEF Init, FreshSight, NoCommand, SightBound
<1> QED
  BY <1>1, <1>2 DEF Init, AdapterInit, PolicyGatewayInit, RuntimeInit, SightInv, NoCommand, Command

-----------------------------------------------------------------------------
(* Every step keeps the bounds. *)
LEMMA SightNext == SightInv /\ [Next]_vars => SightInv'
<1> SUFFICES ASSUME SightInv, [Next]_vars PROVE SightInv'
  OBVIOUS
<1>1. CASE Tick
  <2>1. predicting # NoObservation => predictSince <= now'
    BY <1>1 DEF Tick, SightInv
  <2> QED
    BY <1>1, <2>1 DEF Tick, SightInv, adapterVars, pgVars, runtimeVars,
       FreshSight, BoundedSample, SightBound
<1>2. CASE ImageArrives
  BY <1>2 DEF ImageArrives, on_image, SightInv, pgVars, runtimeVars, linkVars,
     FreshSight, BoundedSample, SightBound
<1>3. CASE ObservationStatusArrives
  BY <1>3, SightStutter DEF ObservationStatusArrives, on_observation_status,
     sightVars, pgVars, runtimeVars, linkVars
<1>4. CASE PublishObservation
  <2>1. ObservationDue(now)
    BY <1>4 DEF PublishObservation, publish_observation
  <2>2. obsTopic' \in Seq(FreshObservation)
    BY <1>4, <2>1, PublishedFresh, RetainedType DEF PublishObservation, SightInv
  <2> QED
    BY <1>4, <2>2 DEF PublishObservation, publish_observation, SightInv,
       pgVars, runtimeVars, FreshSight, BoundedSample, SightBound
<1>5. CASE RestartAdapter
  BY <1>5 DEF RestartAdapter, AdapterRestart, SightInv, pgVars, runtimeVars,
     linkVars, FreshSight, BoundedSample, SightBound
<1>6. CASE TakeObservation \/ DeliverObservation
  <2>1. CASE TakeObservation
    <3>1. Head(obsTopic) \in FreshObservation /\ Tail(obsTopic) \in Seq(FreshObservation)
      BY <2>1 DEF TakeObservation, SightInv
    <3> QED
      BY <2>1, <3>1 DEF TakeObservation, SightInv, adapterVars, pgVars,
         runtimeVars, FreshSight, BoundedSample, SightBound
  <2>2. CASE DeliverObservation
    BY <2>2 DEF DeliverObservation, on_observation, SightInv, adapterVars,
       runtimeVars, FreshSight, BoundedSample, SightBound
  <2> QED
    BY <1>6, <2>1, <2>2
<1>7. CASE RequestPrediction
  <2>1. /\ predicting' = observation /\ predictSince' = now
        /\ now <= observation.validUntil
    BY <1>7 DEF RequestPrediction, predict, CanPredict
  <2> QED
    BY <1>7, <2>1 DEF RequestPrediction, predict, SightInv, adapterVars,
       runtimeVars, FreshSight, BoundedSample, SightBound
<1>8. CASE PredictionArrives
  <2>1. PICK acceptable \in Acceptable :
          actionTopic' = Retained(Append(actionTopic,
                             PolicyAction(chunks + 1, now, acceptable)), ActionDepth)
    BY <1>8 DEF PredictionArrives
  <2>2. PolicyAction(chunks + 1, now, acceptable) \in BoundedAction
    <3> DEFINE a == PolicyAction(chunks + 1, now, acceptable)
    <3>1. /\ predicting.imageAt \in Nat /\ predicting.validUntil \in Nat
          /\ predicting.validUntil <= predicting.imageAt + ImageTimeout + ObsValidity
          /\ predictSince \in Nat /\ now \in Nat /\ chunks \in Nat
          /\ predictSince <= predicting.validUntil /\ predictSince <= now
      BY <1>8 DEF PredictionArrives, SightInv, FreshObservation, Observation
    <3>2. /\ a.imageAt = predicting.imageAt /\ a.validUntil = now + ActionValidity
          /\ a.took = now - predictSince
      BY DEF PolicyAction
    <3>3. a \in Action
      BY <3>1 DEF PolicyAction, Action
    <3>4. a.validUntil <= a.imageAt + SightBound(a.took)
      BY <3>1, <3>2 DEF SightBound
    <3> QED
      BY <3>3, <3>4 DEF BoundedAction
  <2>3. actionTopic' \in Seq(BoundedAction)
    BY <2>1, <2>2, RetainedType DEF SightInv
  <2>4. NoObservation \in FreshObservation
    BY DEF NoObservation, FreshObservation, Observation
  <2> QED
    BY <1>8, <2>3, <2>4 DEF PredictionArrives, predict_succeeds, SightInv,
       adapterVars, runtimeVars, FreshSight, BoundedSample, SightBound
<1>9. CASE PredictionFails
  <2>1. NoObservation \in FreshObservation
    BY DEF NoObservation, FreshObservation, Observation
  <2> QED
    BY <1>9, <2>1 DEF PredictionFails, predict_fails, SightInv, adapterVars,
       runtimeVars, FreshSight, BoundedSample, SightBound
<1>10. CASE StatusThread
  BY <1>10, SightStutter DEF StatusThread, refresh_asks, refresh_applies,
     publish_status, sightVars, adapterVars, runtimeVars, linkVars
<1>11. CASE StartServer \/ DebugRun
  BY <1>11, SightStutter DEF StartServer, DebugRun, sightVars, adapterVars,
     pgVars, runtimeVars, linkVars
<1>12. CASE CrashServer
  BY <1>12, SightStutter DEF CrashServer, sightVars, adapterVars, pgVars, runtimeVars
<1>13. ASSUME NEW w \in Workers, WorkerStep(w) PROVE SightInv'
  BY <1>13, SightStutter DEF WorkerStep, sightVars, adapterVars, pgVars,
     runtimeVars, linkVars
<1>14. CASE DeliverAction
  <2> DEFINE m == Head(actionTopic)
  <2>1. m \in BoundedAction /\ Tail(actionTopic) \in Seq(BoundedAction)
    BY <1>14 DEF DeliverAction, SightInv
  <2>2. CASE ActionAccepted(m)
    <3>1. \A i \in 1..Horizon : [chunk |-> m.chunk, index |-> i, imageAt |-> m.imageAt,
                                 took |-> m.took] \in BoundedSample(m.validUntil)
      BY <2>1 DEF BoundedAction, Action, BoundedSample, Sample
    <3>2. SamplesFrom(m) \in Seq(BoundedSample(m.validUntil))
      BY <3>1 DEF SamplesFrom
    <3>3. m.validUntil \in Nat
      BY <2>1 DEF BoundedAction, Action
    <3>4. actions' = SamplesFrom(m) /\ actionsUntil' = m.validUntil
      BY <1>14, <2>2 DEF DeliverAction, on_action
    <3>5. actions' \in Seq(BoundedSample(actionsUntil'))
      BY <3>2, <3>4
    <3>6. BoundedSample(actionsUntil)' = BoundedSample(actionsUntil')
      BY DEF BoundedSample, SightBound
    <3> QED
      BY <1>14, <2>1, <3>3, <3>4, <3>5, <3>6 DEF DeliverAction, SightInv,
         adapterVars, pgVars, FreshSight, SightBound
  <2>3. CASE ~ActionAccepted(m)
    BY <1>14, <2>1, <2>3 DEF DeliverAction, on_action, SightInv, adapterVars,
       pgVars, runtimeVars, FreshSight, BoundedSample, SightBound
  <2> QED
    BY <2>2, <2>3
<1>15. CASE Execute
  <2>1. CASE SampleDue(now)
    <3>1. /\ Head(actions) \in BoundedSample(actionsUntil)
          /\ Tail(actions) \in Seq(BoundedSample(actionsUntil))
      BY <2>1 DEF SampleDue, SightInv
    <3>2. vlaCommand' \in Command
      BY <1>15, <2>1, <3>1 DEF Execute, SightInv, BoundedSample, Sample, Command
    <3>3. FreshSight'
      <4>1. /\ vlaCommand'.at = now /\ vlaCommand'.imageAt = Head(actions).imageAt
            /\ vlaCommand'.took = Head(actions).took
        BY <1>15, <2>1 DEF Execute
      <4>2. /\ Head(actions).imageAt \in Nat /\ Head(actions).took \in Nat
            /\ actionsUntil <= Head(actions).imageAt + SightBound(Head(actions).took)
        BY <3>1 DEF BoundedSample, Sample
      <4>3. now \in Nat /\ actionsUntil \in Nat /\ now <= actionsUntil
        BY <2>1 DEF SampleDue, SightInv
      <4>4. now - Head(actions).imageAt <= SightBound(Head(actions).took)
        BY <4>2, <4>3 DEF SightBound
      <4> QED
        BY <4>1, <4>4 DEF FreshSight, SightBound
    <3> QED
      BY <1>15, <2>1, <3>1, <3>2, <3>3 DEF Execute, execute, SightInv,
         adapterVars, pgVars, BoundedSample, SightBound
  <2>2. CASE ~SampleDue(now)
    BY <1>15, <2>2 DEF Execute, execute, SightInv, adapterVars, pgVars,
       FreshSight, BoundedSample, SightBound
  <2> QED
    BY <2>1, <2>2
<1>16. CASE UNCHANGED vars
  BY <1>16, SightStutter DEF vars, sightVars, adapterVars, pgVars, runtimeVars, linkVars
<1> QED
  BY <1>1, <1>2, <1>3, <1>4, <1>5, <1>6, <1>7, <1>8, <1>9, <1>10, <1>11, <1>12,
     <1>13, <1>14, <1>15, <1>16 DEF Next

(* FreshSight of the specification: whatever the deadlines, depths and     *)
(* interleavings, an executed sample rests on a picture no older than the  *)
(* image, observation and action deadlines of the adapter, the gateway and *)
(* the runtime add up to, beside the time its own transaction took.        *)
THEOREM PipelineFreshSight == Spec => []FreshSight
<1>1. SightInv => FreshSight
  BY DEF SightInv
<1> QED
  BY SightInit, SightNext, <1>1, PTL DEF Spec

-----------------------------------------------------------------------------
(* Which observation is answered, and which sample is played, next.        *)
(*                                                                         *)
(* An observation is known by the adapter's life and its number in it: the *)
(* pair never recurs although the number does.  The callbacks may store    *)
(* observations in any order, but each of them once.  Actions are an       *)
(* ordered queue by the chunk they were published as: a keep-last topic    *)
(* drops elements and never reorders them.                                 *)

Before(o, p) == o.run < p.run \/ (o.run = p.run /\ o.id < p.id)

Position(o) == <<o.run, o.id>>

(* The number the adapter gives out next. *)
Upcoming == [run |-> adapterRun, id |-> obsSequence + 1]

(* Neither answered, nor stored, nor asked about. *)
Unseen(o) ==
    /\ Before(o, Upcoming)
    /\ Position(o) \notin answered
    /\ Position(o) # Position(observation)
    /\ predicting # NoObservation => Position(o) # Position(predicting)

(* The inductive invariant behind AnsweredOnce: what is on its way to the  *)
(* gateway is unseen and all different, and last_observation_id_ is that   *)
(* of the stored observation whenever that one is answered and the gateway *)
(* could ask for it again.                                                 *)
AnswerInv ==
    /\ IsFiniteSet(answered) /\ answered \subseteq Nat \X Nat
    /\ Cardinality(answered) = chunks
    /\ \A i \in 1..Len(obsTopic) : Unseen(obsTopic[i])
    /\ \A o \in taken : Unseen(o)
    /\ \A i, j \in 1..Len(obsTopic) : i < j => Position(obsTopic[i]) # Position(obsTopic[j])
    /\ \A i \in 1..Len(obsTopic) : \A o \in taken : Position(o) # Position(obsTopic[i])
    /\ \A o, p \in taken : Position(o) = Position(p) => o = p
    /\ Before(observation, Upcoming)
    /\ \A a \in answered : Before([run |-> a[1], id |-> a[2]], Upcoming)
    /\ Position(observation) \in answered => lastId = observation.id
    /\ predicting # NoObservation =>
          /\ Before(predicting, Upcoming)
          /\ Position(predicting) \notin answered
          /\ Position(observation) \notin answered

(* The inductive invariant behind SamplesMoveOn: what was played, what is  *)
(* queued and what is on the topic follow one another.                     *)
PlayInv ==
    /\ vlaCommand.chunk <= chunks
    /\ \A i \in 1..Len(actions) :
          Newer(actions[i], vlaCommand) /\ actions[i].chunk <= chunks
    /\ \A i, j \in 1..Len(actions) : i < j => Newer(actions[j], actions[i])
    /\ \A i \in 1..Len(actionTopic) :
          /\ vlaCommand.chunk < actionTopic[i].chunk /\ actionTopic[i].chunk <= chunks
          /\ \A k \in 1..Len(actions) : actions[k].chunk < actionTopic[i].chunk
    /\ \A i, j \in 1..Len(actionTopic) : i < j => actionTopic[i].chunk < actionTopic[j].chunk

(* A keep-last topic drops from the front. *)
LEMMA RetainedElements ==
    ASSUME NEW S, NEW q \in Seq(S), NEW d \in Nat \ {0}
    PROVE  \E k \in 0..Len(q) :
              /\ Len(Retained(q, d)) = Len(q) - k
              /\ \A i \in 1..Len(q) - k : Retained(q, d)[i] = q[i + k]
<1>0. Len(q) \in Nat
  OBVIOUS
<1>1. CASE Len(q) <= d
  <2>1. Retained(q, d) = q
    BY <1>1 DEF Retained
  <2>2. 0 \in 0..Len(q) /\ \A i \in 1..Len(q) - 0 : i + 0 = i
    BY <1>0
  <2>3. Len(q) = Len(q) - 0 /\ \A i \in 1..Len(q) - 0 : q[i] = q[i + 0]
    BY <1>0, <2>2
  <2> QED
    BY <2>1, <2>2, <2>3
<1>2. CASE ~(Len(q) <= d)
  <2> DEFINE k == Len(q) - d
  <2>1. k \in 0..Len(q) /\ k + 1 \in 1..Len(q) /\ Retained(q, d) = SubSeq(q, k + 1, Len(q))
    BY <1>0, <1>2 DEF Retained
  <2>2. /\ Len(SubSeq(q, k + 1, Len(q))) = Len(q) - k
        /\ \A i \in 1..Len(q) - k : SubSeq(q, k + 1, Len(q))[i] = q[i + k]
    BY <1>0, <2>1
  <2> QED
    BY <2>1, <2>2
<1> QED
  BY <1>1, <1>2

(* The types SightInv gives the observations.                              *)
LEMMA ObservationTypes ==
    ASSUME SightInv
    PROVE  /\ obsSequence \in Nat /\ adapterRun \in Nat /\ chunks \in Nat
           /\ obsTopic \in Seq(Observation) /\ taken \subseteq Observation
           /\ observation.run \in Nat /\ observation.id \in Nat
           /\ predicting.run \in Nat /\ predicting.id \in Nat
<1>1. \A i \in 1..Len(obsTopic) : obsTopic[i] \in Observation
  BY DEF SightInv, FreshObservation
<1>2. obsTopic \in Seq(Observation)
  BY <1>1 DEF SightInv
<1> QED
  BY <1>2 DEF SightInv, FreshObservation, Observation

(* The variables AnswerInv speaks of.                                      *)
answerVars == <<answered, chunks, obsTopic, taken, observation, adapterRun,
                obsSequence, lastId, predicting>>

LEMMA AnswerStutter ==
    ASSUME AnswerInv, UNCHANGED answerVars PROVE AnswerInv'
  BY DEF AnswerInv, answerVars, Unseen, Upcoming

LEMMA AnswerInit == Init => AnswerInv
<1> SUFFICES ASSUME Init PROVE AnswerInv
  OBVIOUS
<1>1. IsFiniteSet({}) /\ Cardinality({}) = 0
  BY FS_EmptySet
<1> QED
  BY <1>1 DEF Init, AdapterInit, PolicyGatewayInit, AnswerInv, NoObservation, Before,
     Upcoming

(* The adapter's numbers go up, also by a restart: what is unseen stays so.*)
LEMMA AnswerAdvances ==
    ASSUME SightInv, AnswerInv, adapterRun' \in Nat, obsSequence' \in Nat,
           Before(Upcoming, Upcoming'),
           UNCHANGED <<answered, chunks, taken, observation, lastId, predicting>>
    PROVE  /\ \A o \in Observation : Unseen(o) => Unseen(o)'
           /\ \A o \in Observation : o.run = adapterRun /\ o.id = obsSequence + 1 => Unseen(o)'
           /\ Before(observation, Upcoming)'
           /\ \A a \in answered : Before([run |-> a[1], id |-> a[2]], Upcoming')
           /\ predicting # NoObservation => Before(predicting, Upcoming')
<1>1. /\ Upcoming.run \in Nat /\ Upcoming.id \in Nat
      /\ Upcoming'.run \in Nat /\ Upcoming'.id \in Nat
  <2>1. /\ Upcoming.run = adapterRun /\ Upcoming.id = obsSequence + 1
        /\ Upcoming'.run = adapterRun' /\ Upcoming'.id = obsSequence' + 1
    BY DEF Upcoming
  <2>2. adapterRun \in Nat /\ obsSequence \in Nat /\ adapterRun' \in Nat /\ obsSequence' \in Nat
    BY ObservationTypes
  <2>3. \A n \in Nat : n + 1 \in Nat
    OBVIOUS
  <2> QED
    BY ONLY <2>1, <2>2, <2>3, Zenon
<1>2. ASSUME NEW o, o.run \in Nat, o.id \in Nat, Before(o, Upcoming)
      PROVE  Before(o, Upcoming') /\ Position(o) # Position(Upcoming)
  BY ONLY <1>1, <1>2, Before(Upcoming, Upcoming') DEF Before, Position
<1>3. ASSUME NEW o \in Observation, Unseen(o) PROVE Unseen(o)'
  <2>1. o.run \in Nat /\ o.id \in Nat
    BY DEF Observation
  <2>2. Before(o, Upcoming')
    BY <1>2, <1>3, <2>1 DEF Unseen
  <2> QED
    BY <1>3, <2>2 DEF Unseen
<1>4. Before(observation, Upcoming)' /\ Position(observation) # Position(Upcoming)
  BY <1>2, ObservationTypes DEF AnswerInv
<1>5. ASSUME NEW a \in answered
      PROVE  Before([run |-> a[1], id |-> a[2]], Upcoming') /\ a # Position(Upcoming)
  <2> DEFINE b == [run |-> a[1], id |-> a[2]]
  <2>1. a[1] \in Nat /\ a[2] \in Nat /\ a = <<a[1], a[2]>> /\ Before(b, Upcoming)
    BY DEF AnswerInv
  <2>2. b.run \in Nat /\ b.id \in Nat /\ Position(b) = a
    BY <2>1 DEF Position
  <2> HIDE DEF b
  <2>3. Before(b, Upcoming') /\ Position(b) # Position(Upcoming)
    BY <1>2, <2>1, <2>2
  <2> QED
    BY <2>2, <2>3 DEF b
<1>6. predicting # NoObservation =>
        Before(predicting, Upcoming') /\ Position(predicting) # Position(Upcoming)
  BY <1>2, ObservationTypes DEF AnswerInv
<1>7. ASSUME NEW o \in Observation, o.run = adapterRun, o.id = obsSequence + 1
      PROVE  Unseen(o)'
  <2>1. Position(o) = Position(Upcoming)
    BY <1>7 DEF Position, Upcoming
  <2>2. Before(o, Upcoming')
    BY <1>7 DEF Before, Upcoming
  <2> QED
    BY <1>4, <1>5, <1>6, <2>1, <2>2 DEF Unseen
<1> QED
  BY <1>3, <1>4, <1>5, <1>6, <1>7 DEF Unseen

LEMMA AnswerPublish ==
    ASSUME SightInv, AnswerInv, PublishObservation PROVE AnswerInv'
<1> DEFINE n == NextObservation(now)
           q == Append(obsTopic, n)
<1> USE DEF AnswerInv
<1>0. /\ obsTopic' = Retained(q, ObsDepth)
      /\ obsSequence' = obsSequence + 1
      /\ UNCHANGED <<answered, chunks, taken, observation, adapterRun, lastId, predicting>>
  BY DEF PublishObservation, publish_observation, pgVars
<1>1. /\ obsSequence \in Nat /\ adapterRun \in Nat /\ obsTopic \in Seq(Observation)
      /\ taken \subseteq Observation
  BY ObservationTypes
<1>2. n \in Observation /\ n.run = adapterRun /\ n.id = obsSequence + 1
  <2>1. ObservationDue(now)
    BY DEF PublishObservation, publish_observation
  <2>2. n \in Observation
    BY <2>1, PublishedFresh DEF FreshObservation
  <2> QED
    BY <2>2 DEF NextObservation
<1> HIDE DEF n
<1>3. /\ q \in Seq(Observation) /\ Len(q) = Len(obsTopic) + 1 /\ Len(obsTopic) \in Nat
      /\ q[Len(obsTopic) + 1] = n
      /\ \A i \in 1..Len(obsTopic) : q[i] = obsTopic[i] /\ obsTopic[i] \in Observation
  BY <1>1, <1>2
<1> HIDE DEF q
<1>4. /\ \A o \in Observation : Unseen(o) => Unseen(o)'
      /\ \A o \in Observation : o.run = adapterRun /\ o.id = obsSequence + 1 => Unseen(o)'
      /\ Before(observation, Upcoming)'
      /\ \A a \in answered : Before([run |-> a[1], id |-> a[2]], Upcoming')
      /\ predicting # NoObservation => Before(predicting, Upcoming')
  <2>1. adapterRun' \in Nat /\ obsSequence' \in Nat /\ Before(Upcoming, Upcoming')
    BY <1>0, <1>1 DEF Before, Upcoming
  <2> QED
    BY <1>0, <2>1, AnswerAdvances
<1>5. \A o \in Observation : Unseen(o) => Position(o) # Position(n)
  BY <1>1, <1>2 DEF Unseen, Before, Upcoming, Position, Observation
<1>6. ASSUME NEW i \in 1..Len(q), NEW o \in Observation, o = q[i] PROVE Unseen(o)'
  <2>1. CASE i = Len(obsTopic) + 1
    BY <1>2, <1>3, <1>4, <1>6, <2>1
  <2>2. CASE i \in 1..Len(obsTopic)
    BY <1>3, <1>4, <1>6, <2>2
  <2> QED
    BY <1>3, <2>1, <2>2
<1>7. ASSUME NEW i \in 1..Len(q), NEW j \in 1..Len(q), i < j
      PROVE  Position(q[i]) # Position(q[j])
  <2>0. i \in 1..Len(obsTopic)
    BY <1>3, <1>7
  <2>1. CASE j = Len(obsTopic) + 1
    BY <1>3, <1>5, <2>0, <2>1
  <2>2. CASE j \in 1..Len(obsTopic)
    BY <1>3, <1>7, <2>0, <2>2
  <2> QED
    BY <1>3, <2>1, <2>2
<1>8. ASSUME NEW i \in 1..Len(q), NEW o \in taken PROVE Position(o) # Position(q[i])
  <2>1. CASE i = Len(obsTopic) + 1
    BY <1>1, <1>3, <1>5, <2>1
  <2>2. CASE i \in 1..Len(obsTopic)
    BY <1>3, <2>2
  <2> QED
    BY <1>3, <2>1, <2>2
<1>9. PICK k \in 0..Len(q) :
         /\ Len(obsTopic') = Len(q) - k
         /\ \A i \in 1..Len(q) - k : obsTopic'[i] = q[i + k]
  <2>1. ObsDepth \in Nat \ {0}
    BY PipelineAssumption
  <2>2. \E k \in 0..Len(q) :
           /\ Len(Retained(q, ObsDepth)) = Len(q) - k
           /\ \A i \in 1..Len(q) - k : Retained(q, ObsDepth)[i] = q[i + k]
    BY ONLY <1>3, <2>1, RetainedElements, ZenonT(40)
  <2> QED
    BY ONLY <1>0, <2>2
<1>10. \A i \in 1..Len(obsTopic') : i + k \in 1..Len(q) /\ obsTopic'[i] = q[i + k]
  BY <1>3, <1>9
<1>11. ASSUME NEW i \in 1..Len(obsTopic')
       PROVE  Unseen(obsTopic[i])' /\ \A o \in taken' : Position(o) # Position(obsTopic'[i])
  <2> DEFINE o == q[i + k]
  <2>1. i + k \in 1..Len(q) /\ obsTopic'[i] = o /\ o \in Observation
    BY <1>3, <1>10
  <2>2. \A p \in Observation : p = o => Unseen(p)'
    BY <1>6, <2>1
  <2>3. Unseen(obsTopic[i])'
    BY <2>1, <2>2 DEF Unseen
  <2> QED
    BY <1>0, <1>8, <2>1, <2>3
<1>12. ASSUME NEW i \in 1..Len(obsTopic'), NEW j \in 1..Len(obsTopic'), i < j
       PROVE  Position(obsTopic'[i]) # Position(obsTopic'[j])
  <2>1. i + k \in 1..Len(q) /\ j + k \in 1..Len(q) /\ i + k < j + k
    BY ONLY <1>9, <1>10, <1>12
  <2> QED
    BY ONLY <1>7, <1>10, <2>1
<1>13. \A o \in taken' : Unseen(o)'
  BY <1>0, <1>1, <1>4
<1> QED
  BY <1>0, <1>4, <1>11, <1>12, <1>13

(* A callback begins: what it took is on its way as before.                *)
LEMMA AnswerTake ==
    ASSUME SightInv, AnswerInv, TakeObservation PROVE AnswerInv'
<1> DEFINE o == Head(obsTopic)
<1> USE DEF AnswerInv
<1>0. /\ obsTopic # << >> /\ obsTopic' = Tail(obsTopic) /\ taken' = taken \cup {o}
      /\ UNCHANGED <<answered, chunks, observation, adapterRun, obsSequence, lastId, predicting>>
  BY DEF TakeObservation, adapterVars, pgVars
<1>1. obsTopic \in Seq(Observation)
  BY ObservationTypes
<1>2. /\ o = obsTopic[1] /\ 1 \in 1..Len(obsTopic) /\ Len(obsTopic) \in Nat
      /\ Len(Tail(obsTopic)) = Len(obsTopic) - 1
      /\ \A i \in 1..Len(obsTopic) - 1 : Tail(obsTopic)[i] = obsTopic[i + 1]
  BY <1>0, <1>1
<1> HIDE DEF o
<1>3. \A i \in 1..Len(obsTopic') :
         i + 1 \in 1..Len(obsTopic) /\ 1 < i + 1 /\ obsTopic'[i] = obsTopic[i + 1]
  BY <1>0, <1>2
<1>4. UNCHANGED Upcoming
  BY <1>0 DEF Upcoming
<1>5. /\ \A i \in 1..Len(obsTopic') : Unseen(obsTopic[i])'
      /\ \A p \in taken' : Unseen(p)'
  BY <1>0, <1>2, <1>3, <1>4 DEF Unseen
<1>6. ASSUME NEW i \in 1..Len(obsTopic'), NEW j \in 1..Len(obsTopic'), i < j
      PROVE  Position(obsTopic'[i]) # Position(obsTopic'[j])
  <2>1. i + 1 < j + 1
    BY <1>2, <1>6
  <2> QED
    BY <1>3, <2>1
<1>7. \A i \in 1..Len(obsTopic') : \A p \in taken' : Position(p) # Position(obsTopic'[i])
  BY <1>0, <1>2, <1>3
<1>8. \A p, r \in taken' : Position(p) = Position(r) => p = r
  BY <1>0, <1>2
<1> QED
  BY <1>0, <1>4, <1>5, <1>6, <1>7, <1>8

(* The stored observation is a new one, in whatever order they come.       *)
LEMMA AnswerDeliver ==
    ASSUME SightInv, AnswerInv, DeliverObservation PROVE AnswerInv'
<1> USE DEF AnswerInv
<1>0. PICK o \in taken : observation' = o /\ taken' = taken \ {o}
  BY DEF DeliverObservation, on_observation
<1>1. UNCHANGED <<obsTopic, answered, chunks, adapterRun, obsSequence, lastId, predicting>>
  BY DEF DeliverObservation, on_observation, adapterVars
<1>2. UNCHANGED Upcoming
  BY <1>1 DEF Upcoming
<1>3. Unseen(o)
  OBVIOUS
<1>4. \A i \in 1..Len(obsTopic) : Unseen(obsTopic[i])'
  BY <1>0, <1>1, <1>2 DEF Unseen
<1>5. \A p \in taken' : Unseen(p)'
  BY <1>0, <1>1, <1>2 DEF Unseen
<1>6. Before(observation', Upcoming') /\ Position(observation') \notin answered
  BY <1>0, <1>2, <1>3 DEF Unseen
<1> QED
  BY <1>0, <1>1, <1>2, <1>4, <1>5, <1>6

(* The gateway asks only about an observation it has not answered.         *)
LEMMA AnswerRequest ==
    ASSUME SightInv, AnswerInv, RequestPrediction PROVE AnswerInv'
<1> USE DEF AnswerInv
<1>0. /\ predicting' = observation /\ observation.id # lastId
      /\ UNCHANGED <<answered, chunks, obsTopic, taken, observation, adapterRun,
                     obsSequence, lastId>>
  BY DEF RequestPrediction, predict, CanPredict, adapterVars
<1>1. UNCHANGED Upcoming
  BY <1>0 DEF Upcoming
<1>2. Position(observation) \notin answered
  BY <1>0
<1>3. /\ \A i \in 1..Len(obsTopic) : Unseen(obsTopic[i])'
      /\ \A o \in taken : Unseen(o)'
  BY <1>0, <1>1 DEF Unseen
<1> QED
  BY <1>0, <1>1, <1>2, <1>3

LEMMA AnswerArrives ==
    ASSUME SightInv, AnswerInv, PredictionArrives PROVE AnswerInv'
<1> DEFINE p == <<predicting.run, predicting.id>>
<1> USE DEF AnswerInv
<1>0. /\ predicting # NoObservation /\ predicting' = NoObservation
      /\ lastId' = predicting.id /\ chunks' = chunks + 1 /\ answered' = answered \cup {p}
      /\ UNCHANGED <<obsTopic, taken, observation, adapterRun, obsSequence>>
  BY DEF PredictionArrives, predict_succeeds, adapterVars
<1>1. predicting.run \in Nat /\ predicting.id \in Nat
  BY ObservationTypes
<1>2. p = Position(predicting) /\ p \notin answered /\ UNCHANGED Upcoming
  BY <1>0 DEF Position, Upcoming
<1>3. IsFiniteSet(answered') /\ Cardinality(answered') = chunks'
  <2>1. IsFiniteSet(answered \cup {p}) /\ Cardinality(answered \cup {p}) = Cardinality(answered) + 1
    BY <1>2, FS_AddElement
  <2> QED
    BY <1>0, <2>1
<1>4. answered' \subseteq Nat \X Nat
  BY <1>0, <1>1
<1>5. \A a \in answered' : Before([run |-> a[1], id |-> a[2]], Upcoming')
  <2>1. Before([run |-> p[1], id |-> p[2]], Upcoming)
    BY <1>0 DEF Before
  <2> QED
    BY <1>0, <1>2, <2>1
<1>6. Position(observation) \in answered' => lastId' = observation.id
  <2>1. Position(observation) \notin answered
    BY <1>0
  <2>2. Position(observation) = p => observation.id = predicting.id
    BY DEF Position
  <2> QED
    BY <1>0, <2>1, <2>2
<1>7. /\ \A i \in 1..Len(obsTopic) : Unseen(obsTopic[i])'
      /\ \A o \in taken : Unseen(o)'
  BY <1>0, <1>2 DEF Unseen
<1> QED
  BY <1>0, <1>2, <1>3, <1>4, <1>5, <1>6, <1>7

LEMMA AnswerNext == SightInv /\ AnswerInv /\ [Next]_vars => AnswerInv'
<1> SUFFICES ASSUME SightInv, AnswerInv, [Next]_vars PROVE AnswerInv'
  OBVIOUS
<1>1. CASE UNCHANGED answerVars
  BY <1>1, AnswerStutter
<1>2. CASE RestartAdapter
  <2>0. /\ obsSequence' = 0 /\ adapterRun' = adapterRun + 1
        /\ UNCHANGED <<answered, chunks, obsTopic, taken, observation, lastId, predicting>>
    BY <1>2 DEF RestartAdapter, AdapterRestart, pgVars, linkVars
  <2>1. /\ obsTopic \in Seq(Observation) /\ taken \subseteq Observation
        /\ adapterRun \in Nat /\ obsSequence \in Nat
        /\ \A i \in 1..Len(obsTopic) : obsTopic[i] \in Observation
    BY ObservationTypes
  <2>2. adapterRun' \in Nat /\ obsSequence' \in Nat /\ Before(Upcoming, Upcoming')
    BY <2>0, <2>1 DEF Before, Upcoming
  <2>3. /\ \A o \in Observation : Unseen(o) => Unseen(o)'
        /\ Before(observation, Upcoming)'
        /\ \A a \in answered : Before([run |-> a[1], id |-> a[2]], Upcoming')
        /\ predicting # NoObservation => Before(predicting, Upcoming')
    BY <2>0, <2>2, AnswerAdvances
  <2>4. ASSUME NEW i \in 1..Len(obsTopic) PROVE Unseen(obsTopic[i])'
    <3>1. obsTopic[i] \in Observation /\ Unseen(obsTopic[i])
      BY <2>1 DEF AnswerInv
    <3>2. ASSUME NEW o \in Observation, Unseen(o), obsTopic[i] = o PROVE Unseen(obsTopic[i])'
      BY <2>0, <2>3, <3>2 DEF Unseen
    <3> QED
      BY <3>1, <3>2
  <2>5. \A o \in taken : Unseen(o)'
    BY <2>1, <2>3 DEF AnswerInv
  <2> QED
    BY <2>0, <2>3, <2>4, <2>5 DEF AnswerInv
<1>3. CASE PredictionFails
  <2>1. /\ predicting' = NoObservation
        /\ UNCHANGED <<answered, chunks, obsTopic, taken, observation, adapterRun,
                       obsSequence, lastId>>
    BY <1>3 DEF PredictionFails, predict_fails, adapterVars
  <2> QED
    BY <2>1 DEF AnswerInv, Unseen, Upcoming
<1>4. CASE StatusThread
  BY <1>1, <1>4 DEF StatusThread, refresh_asks, refresh_applies, publish_status,
                    adapterVars, linkVars, answerVars
<1>5. CASE \/ Tick \/ ImageArrives \/ ObservationStatusArrives
           \/ StartServer \/ CrashServer \/ (\E w \in Workers : WorkerStep(w))
           \/ DebugRun \/ DeliverAction \/ Execute \/ UNCHANGED vars
  BY <1>1, <1>5 DEF Tick, ImageArrives, on_image, ObservationStatusArrives,
        on_observation_status, StartServer, CrashServer, WorkerStep, DebugRun, DeliverAction,
        Execute, vars, adapterVars, pgVars, linkVars, answerVars
<1> QED
  BY <1>2, <1>3, <1>4, <1>5, AnswerPublish, AnswerTake, AnswerDeliver, AnswerRequest,
     AnswerArrives DEF Next

(* AnsweredOnce of the specification: whatever fails, times out or         *)
(* restarts, vla_policy_gateway publishes at most one action for an        *)
(* observation.                                                            *)
THEOREM PipelineAnsweredOnce == Spec => []AnsweredOnce
<1>1. AnswerInv => AnsweredOnce
  BY DEF AnswerInv, AnsweredOnce
<1> QED
  BY <1>1, SightInit, SightNext, AnswerInit, AnswerNext, PTL DEF Spec

-----------------------------------------------------------------------------
(* The samples played. *)

playVars == <<vlaCommand, chunks, actions, actionTopic>>

LEMMA PlayStutter ==
    ASSUME PlayInv, UNCHANGED playVars PROVE PlayInv'
  BY DEF PlayInv, playVars, Newer

LEMMA PlayInit == Init => PlayInv
  BY DEF Init, RuntimeInit, PlayInv, NoCommand

(* The types SightInv gives the chunks and samples.                        *)
LEMMA ActionTypes ==
    ASSUME SightInv
    PROVE  /\ chunks \in Nat /\ vlaCommand.chunk \in Nat /\ vlaCommand.index \in Nat
           /\ actionTopic \in Seq(Action) /\ actions \in Seq(Sample)
           /\ \A i \in 1..Len(actionTopic) : actionTopic[i].chunk \in Nat
           /\ \A i \in 1..Len(actions) : actions[i].chunk \in Nat
<1>1. \A i \in 1..Len(actionTopic) : actionTopic[i] \in Action
  BY DEF SightInv, BoundedAction
<1>2. actionTopic \in Seq(Action)
  BY <1>1 DEF SightInv
<1>3. \A i \in 1..Len(actions) : actions[i] \in Sample
  BY DEF SightInv, BoundedSample
<1>4. actions \in Seq(Sample)
  BY <1>3 DEF SightInv
<1>5. \A i \in 1..Len(actionTopic) : actionTopic[i].chunk \in Nat
  BY <1>1 DEF Action
<1>6. \A i \in 1..Len(actions) : actions[i].chunk \in Nat
  BY <1>3 DEF Sample
<1> QED
  BY <1>2, <1>4, <1>5, <1>6 DEF SightInv, Command

LEMMA PlayArrives ==
    ASSUME SightInv, PlayInv, PredictionArrives PROVE PlayInv'
<1> USE DEF PlayInv
<1>1. PICK acceptable \in Acceptable :
         actionTopic' = Retained(Append(actionTopic,
                            PolicyAction(chunks + 1, now, acceptable)), ActionDepth)
  BY DEF PredictionArrives
<1> DEFINE n == PolicyAction(chunks + 1, now, acceptable)
           q == Append(actionTopic, n)
<1>2. chunks' = chunks + 1 /\ UNCHANGED <<vlaCommand, actions>>
  BY DEF PredictionArrives, runtimeVars
<1>3. /\ chunks \in Nat /\ vlaCommand.chunk \in Nat
      /\ actionTopic \in Seq(Action)
      /\ \A i \in 1..Len(actionTopic) : actionTopic[i].chunk \in Nat
      /\ \A i \in 1..Len(actions) : actions[i].chunk \in Nat
  BY ActionTypes
<1>4. n.chunk = chunks + 1
  BY DEF PolicyAction
<1>5. n \in Action
  <2>1. /\ predicting.imageAt \in Nat /\ now \in Nat /\ predictSince \in Nat
        /\ predictSince <= now /\ chunks \in Nat
    BY DEF PredictionArrives, SightInv, FreshObservation, Observation
  <2> QED
    BY <2>1 DEF PolicyAction, Action
<1> HIDE DEF n
<1>6. /\ Len(q) = Len(actionTopic) + 1 /\ Len(actionTopic) \in Nat
      /\ q \in Seq(Action)
      /\ q[Len(actionTopic) + 1] = n
      /\ \A i \in 1..Len(actionTopic) : q[i] = actionTopic[i]
  BY <1>3, <1>5
<1> HIDE DEF q
<1>7. ASSUME NEW i \in 1..Len(q)
      PROVE  /\ vlaCommand.chunk < q[i].chunk /\ q[i].chunk <= chunks + 1
             /\ \A k \in 1..Len(actions) : actions[k].chunk < q[i].chunk
  <2>1. CASE i = Len(actionTopic) + 1
    BY <1>3, <1>4, <1>6, <2>1
  <2>2. CASE i \in 1..Len(actionTopic)
    BY <1>3, <1>6, <2>2
  <2> QED
    BY <1>6, <2>1, <2>2
<1>8. ASSUME NEW i \in 1..Len(q), NEW j \in 1..Len(q), i < j PROVE q[i].chunk < q[j].chunk
  <2>0. i \in 1..Len(actionTopic)
    BY <1>6, <1>8
  <2>1. CASE j = Len(actionTopic) + 1
    BY <1>3, <1>4, <1>6, <2>0, <2>1
  <2>2. CASE j \in 1..Len(actionTopic)
    BY <1>6, <1>8, <2>0, <2>2
  <2> QED
    BY <1>6, <2>1, <2>2
<1>9. PICK k \in 0..Len(q) :
         /\ Len(actionTopic') = Len(q) - k
         /\ \A i \in 1..Len(q) - k : actionTopic'[i] = q[i + k]
  <2>1. ActionDepth \in Nat \ {0}
    BY PipelineAssumption
  <2>2. \E k \in 0..Len(q) :
           /\ Len(Retained(q, ActionDepth)) = Len(q) - k
           /\ \A i \in 1..Len(q) - k : Retained(q, ActionDepth)[i] = q[i + k]
    BY ONLY <1>6, <2>1, RetainedElements, ZenonT(40)
  <2>3. actionTopic' = Retained(q, ActionDepth)
    BY <1>1 DEF q, n
  <2> QED
    BY ONLY <2>2, <2>3
<1>10. \A i \in 1..Len(actionTopic') : i + k \in 1..Len(q) /\ actionTopic'[i] = q[i + k]
  BY <1>6, <1>9
<1>11. \A i \in 1..Len(actionTopic') :
          /\ vlaCommand'.chunk < actionTopic'[i].chunk /\ actionTopic'[i].chunk <= chunks'
          /\ \A m \in 1..Len(actions') : actions'[m].chunk < actionTopic'[i].chunk
  BY <1>2, <1>7, <1>10
<1>12. ASSUME NEW i \in 1..Len(actionTopic'), NEW j \in 1..Len(actionTopic'), i < j
       PROVE  actionTopic'[i].chunk < actionTopic'[j].chunk
  <2>1. i + k \in 1..Len(q) /\ j + k \in 1..Len(q) /\ i + k < j + k
    BY <1>9, <1>10, <1>12
  <2> QED
    BY <1>8, <1>10, <2>1
<1>13. /\ vlaCommand'.chunk <= chunks'
       /\ \A i \in 1..Len(actions') :
             Newer(actions'[i], vlaCommand') /\ actions'[i].chunk <= chunks'
  BY <1>2, <1>3
<1>14. \A i, j \in 1..Len(actions') : i < j => Newer(actions'[j], actions'[i])
  BY <1>2
<1> QED
  BY <1>11, <1>12, <1>13, <1>14

(* A chunk taken from the topic follows everything that was played.        *)
LEMMA PlayDeliver ==
    ASSUME SightInv, PlayInv, DeliverAction PROVE PlayInv'
<1> DEFINE m == Head(actionTopic)
<1> USE DEF PlayInv
<1>0. actionTopic # << >> /\ actionTopic' = Tail(actionTopic) /\ on_action(m)
      /\ UNCHANGED <<vlaCommand, chunks>>
  BY DEF DeliverAction
<1>1. /\ chunks \in Nat /\ vlaCommand.chunk \in Nat
      /\ actionTopic \in Seq(Action)
  BY ActionTypes
<1>2. /\ m = actionTopic[1] /\ 1 \in 1..Len(actionTopic) /\ Len(actionTopic) \in Nat
      /\ Len(Tail(actionTopic)) = Len(actionTopic) - 1
      /\ \A i \in 1..Len(actionTopic) - 1 : Tail(actionTopic)[i] = actionTopic[i + 1]
      /\ m \in Action
  BY <1>0, <1>1
<1> HIDE DEF m
<1>3. \A i \in 1..Len(actionTopic') :
         /\ i + 1 \in 1..Len(actionTopic) /\ 1 < i + 1
         /\ actionTopic'[i] = actionTopic[i + 1]
  BY <1>0, <1>2
<1>4. ASSUME NEW i \in 1..Len(actionTopic'), NEW j \in 1..Len(actionTopic'), i < j
      PROVE  actionTopic'[i].chunk < actionTopic'[j].chunk
  <2>1. i + 1 < j + 1
    BY <1>2, <1>4
  <2> QED
    BY <1>3, <2>1
<1>5. \A i \in 1..Len(actionTopic') :
         vlaCommand'.chunk < actionTopic'[i].chunk /\ actionTopic'[i].chunk <= chunks'
  BY <1>0, <1>3
<1>6. CASE UNCHANGED actions
  <2>1. \A i \in 1..Len(actionTopic') : \A k \in 1..Len(actions') :
           actions'[k].chunk < actionTopic'[i].chunk
    BY <1>3, <1>6
  <2>2. \A i \in 1..Len(actions') :
           Newer(actions'[i], vlaCommand') /\ actions'[i].chunk <= chunks'
    BY <1>0, <1>6
  <2>3. \A i, j \in 1..Len(actions') : i < j => Newer(actions'[j], actions'[i])
    BY <1>6
  <2> QED
    BY <1>0, <1>4, <1>5, <2>1, <2>2, <2>3
<1>7. CASE actions' = SamplesFrom(m)
  <2>1. Len(actions') = Horizon
    BY <1>7, HorizonAssumption DEF SamplesFrom
  <2>2. \A i \in 1..Horizon : actions'[i].chunk = m.chunk /\ actions'[i].index = i
    BY <1>7 DEF SamplesFrom
  <2>3. m.chunk \in Nat /\ vlaCommand.chunk < m.chunk /\ m.chunk <= chunks
    BY <1>2 DEF Action
  <2>4. \A i \in 1..Len(actions') :
           Newer(actions'[i], vlaCommand') /\ actions'[i].chunk <= chunks'
    BY <1>0, <2>1, <2>2, <2>3 DEF Newer
  <2>5. \A i, j \in 1..Len(actions') : i < j => Newer(actions'[j], actions'[i])
    BY <2>1, <2>2 DEF Newer
  <2>6. \A i \in 1..Len(actionTopic') : m.chunk < actionTopic'[i].chunk
    BY <1>2, <1>3
  <2>7. \A i \in 1..Len(actionTopic') : \A k \in 1..Len(actions') :
           actions'[k].chunk < actionTopic'[i].chunk
    BY <2>1, <2>2, <2>6
  <2> QED
    BY <1>0, <1>4, <1>5, <2>4, <2>5, <2>7
<1> QED
  BY <1>0, <1>6, <1>7 DEF on_action, runtimeVars

(* A sample leaves the queue as it is played, and the next ones are newer. *)
LEMMA PlayExecute ==
    ASSUME SightInv, PlayInv, Execute
    PROVE  /\ PlayInv'
           /\ vlaCommand' # vlaCommand => Newer(vlaCommand', vlaCommand)
<1> USE DEF PlayInv
<1>0. execute(now) /\ UNCHANGED <<chunks, actionTopic>>
  BY DEF Execute
<1>1. CASE ~SampleDue(now)
  <2>1. actions' = << >> /\ vlaCommand' = vlaCommand
    BY <1>0, <1>1 DEF Execute, execute
  <2> QED
    BY <1>0, <2>1
<1>2. CASE SampleDue(now)
  <2> DEFINE h == Head(actions)
  <2>1. /\ actions # << >> /\ actions' = Tail(actions)
        /\ vlaCommand'.chunk = h.chunk /\ vlaCommand'.index = h.index
    BY <1>0, <1>2 DEF Execute, execute, SampleDue
  <2>2. actions \in Seq(Sample)
    BY ActionTypes
  <2>3. /\ h = actions[1] /\ 1 \in 1..Len(actions) /\ Len(actions) \in Nat
        /\ Len(Tail(actions)) = Len(actions) - 1
        /\ \A i \in 1..Len(actions) - 1 : Tail(actions)[i] = actions[i + 1]
    BY <2>1, <2>2
  <2> HIDE DEF h
  <2>4. \A i \in 1..Len(actions') :
           i + 1 \in 1..Len(actions) /\ 1 < i + 1 /\ actions'[i] = actions[i + 1]
    BY <2>1, <2>3
  <2>5. Newer(vlaCommand', vlaCommand)
    BY <2>1, <2>3 DEF Newer
  <2>6. \A i \in 1..Len(actions') :
           Newer(actions'[i], vlaCommand') /\ actions'[i].chunk <= chunks'
    BY <1>0, <2>1, <2>3, <2>4 DEF Newer
  <2>7. ASSUME NEW i \in 1..Len(actions'), NEW j \in 1..Len(actions'), i < j
        PROVE  Newer(actions'[j], actions'[i])
    <3>1. i + 1 < j + 1
      BY <2>1, <2>3, <2>7
    <3> QED
      BY <2>4, <3>1
  <2>8. vlaCommand'.chunk <= chunks'
    BY <1>0, <2>1, <2>3
  <2>9. \A i \in 1..Len(actionTopic') :
           /\ vlaCommand'.chunk < actionTopic'[i].chunk /\ actionTopic'[i].chunk <= chunks'
           /\ \A k \in 1..Len(actions') : actions'[k].chunk < actionTopic'[i].chunk
    BY <1>0, <2>1, <2>3, <2>4
  <2>10. \A i, j \in 1..Len(actionTopic') :
            i < j => actionTopic'[i].chunk < actionTopic'[j].chunk
    BY <1>0
  <2> QED
    BY <2>5, <2>6, <2>7, <2>8, <2>9, <2>10
<1> QED
  BY <1>1, <1>2

(* Only execute plays, and only the four steps above touch a chunk.        *)
LEMMA OtherStepsPlay ==
    ASSUME [Next]_vars, ~PredictionArrives, ~DeliverAction, ~Execute
    PROVE  UNCHANGED playVars
<1> USE DEF adapterVars, pgVars, runtimeVars, linkVars, playVars
<1>1. CASE Tick \/ ImageArrives \/ ObservationStatusArrives \/ PublishObservation
           \/ RestartAdapter \/ TakeObservation \/ DeliverObservation \/ RequestPrediction
  BY <1>1 DEF Tick, ImageArrives, ObservationStatusArrives, PublishObservation,
              RestartAdapter, TakeObservation, DeliverObservation, RequestPrediction
<1>2. CASE PredictionFails \/ StatusThread \/ StartServer \/ CrashServer
           \/ (\E w \in Workers : WorkerStep(w)) \/ DebugRun \/ UNCHANGED vars
  BY <1>2 DEF PredictionFails, StatusThread, StartServer, CrashServer, WorkerStep,
              DebugRun, vars
<1> QED
  BY <1>1, <1>2 DEF Next

LEMMA PlayNext == SightInv /\ PlayInv /\ [Next]_vars => PlayInv'
  BY OtherStepsPlay, PlayStutter, PlayArrives, PlayDeliver, PlayExecute

(* SamplesMoveOn of the specification: vla_action_runtime repeats no       *)
(* sample and plays none after one of a newer chunk, however predictions   *)
(* and deliveries interleave with its timer.                               *)
THEOREM PipelineSamplesMoveOn == Spec => SamplesMoveOn
<1>1. SightInv /\ PlayInv /\ [Next]_vars =>
        [vlaCommand' # vlaCommand => Newer(vlaCommand', vlaCommand)]_vars
  <2> SUFFICES ASSUME SightInv, PlayInv, [Next]_vars, vlaCommand' # vlaCommand
               PROVE  Newer(vlaCommand', vlaCommand)
    OBVIOUS
  <2>1. Execute
    BY OtherStepsPlay DEF playVars, PredictionArrives, DeliverAction
  <2> QED
    BY <2>1, PlayExecute
<1> QED
  BY <1>1, SightInit, SightNext, PlayInit, PlayNext, PTL DEF Spec, SamplesMoveOn
=============================================================================
