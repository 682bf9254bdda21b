-------------------------- MODULE DispatcherProofs --------------------------
(***************************************************************************)
(* Proofs about the webhook dispatcher, for every set of events and        *)
(* subscriptions, every queue capacity, number of retries and threshold.   *)
(***************************************************************************)
EXTENDS Dispatcher, TLAPS, SequenceTheorems

\* A busy worker holds a task.
LEMMA BusyHasTask ==
  ASSUME TypeOK, workerPc \in {"delivering", "aborted", "deactivating"}
  PROVE  current \in Task /\ current.sub \in Subs /\ current.event \in Events
         /\ current.attempt \in 0..Retries /\ Id(current) \in Deliveries
  BY DEF TypeOK, Task, Id, Deliveries

\* Taking from the queue and appending to it.
LEMMA TakeFacts ==
  ASSUME TypeOK, queue # <<>>
  PROVE  /\ Head(queue) \in Task /\ Head(queue) = queue[1]
         /\ Id(Head(queue)) \in Deliveries
         /\ Tail(queue) \in Seq(Task) /\ Len(Tail(queue)) = Len(queue) - 1
         /\ \A i \in 1..Len(Tail(queue)) : Tail(queue)[i] = queue[i + 1]
  <1>1. queue \in Seq(Task) /\ Len(queue) \in Nat /\ Len(queue) # 0
    BY EmptySeq, LenProperties DEF TypeOK
  <1>2. Head(queue) \in Task /\ Head(queue) = queue[1]
    BY <1>1, HeadTailProperties, ElementOfSeq
  <1>3. Tail(queue) \in Seq(Task) /\ Len(Tail(queue)) = Len(queue) - 1
        /\ \A i \in 1..Len(Tail(queue)) : Tail(queue)[i] = queue[i + 1]
    BY <1>1, HeadTailProperties DEF TypeOK
  <1>4. QED BY <1>2, <1>3 DEF Id, Deliveries, Task

LEMMA AppendFacts ==
  ASSUME TypeOK, NEW t \in Task
  PROVE  /\ Append(queue, t) \in Seq(Task)
         /\ Len(Append(queue, t)) = Len(queue) + 1
         /\ \A i \in 1..Len(queue) : Append(queue, t)[i] = queue[i]
         /\ Append(queue, t)[Len(queue) + 1] = t
  BY AppendProperties DEF TypeOK

\* Counting one more failure.
LEMMA CounterBumped ==
  ASSUME NEW S, NEW f \in [S -> Nat], NEW s \in S
  PROVE  [f EXCEPT ![s] = @ + 1] \in [S -> Nat]
  OBVIOUS

USE SubsAssumption, SubscribedAssumption, QueueCapAssumption,
    RetriesAssumption, MaxFailuresAssumption, MaxRestartsAssumption

LEMMA EmptyQueue == <<>> \in Seq(Task) /\ Len(<<>>) = 0
  BY EmptySeq

LEMMA TypeOKInit == Init => TypeOK
  <1> SUFFICES ASSUME Init PROVE TypeOK
    OBVIOUS
  <1>1. queue \in Seq(Task) /\ Len(queue) <= QueueCap
    BY EmptyQueue DEF Init
  <1>2. restarts \in 0..MaxRestarts
    BY DEF Init
  <1>3. row \in [Subs -> {"absent", "active", "inactive", "deleted"}]
        /\ call \in [Events -> {"idle", "enqueueing", "returned"}]
        /\ todo \in [Events -> SUBSET Subs]
    BY DEF Init
  <1>4. tries \in [Deliveries -> Nat] /\ failures \in [Subs -> Nat]
        /\ streak \in [Subs -> Nat]
    BY DEF Init
  <1>5. QED BY <1>1, <1>2, <1>3, <1>4 DEF Init, TypeOK

LEMMA TypeOKStep == TypeOK /\ [Next]_vars => TypeOK'
  <1> SUFFICES ASSUME TypeOK, [Next]_vars PROVE TypeOK'
    OBVIOUS
  <1> USE DEF service, worker, control, history
  <1>1. ASSUME NEW s \in Subs, CreateSubscription(s) \/ DeleteSubscription(s)
        PROVE  TypeOK'
    BY <1>1 DEF TypeOK, CreateSubscription, DeleteSubscription
  <1>2. ASSUME NEW e \in Events, DispatchFails(e) PROVE TypeOK'
    BY <1>2 DEF TypeOK, DispatchFails
  <1>3. ASSUME NEW e \in Events, DispatchLists(e) PROVE TypeOK'
    BY <1>3 DEF TypeOK, DispatchLists, ListActiveByEvent, Deliveries
  <1>4. ASSUME NEW e \in Events, Enqueue(e) PROVE TypeOK'
    <2>1. PICK s \in todo[e] :
            /\ SendOrDrop([event |-> e, sub |-> s, attempt |-> 0])
            /\ todo' = [todo EXCEPT ![e] = @ \ {s}]
            /\ call' = [call EXCEPT ![e] =
                          IF todo[e] = {s} THEN "returned" ELSE "enqueueing"]
      BY <1>4 DEF Enqueue
    <2>2. [event |-> e, sub |-> s, attempt |-> 0] \in Task
      BY DEF TypeOK, Task
    <2>3. queue' \in Seq(Task) /\ Len(queue') <= QueueCap
      BY <2>1, <2>2, AppendFacts DEF TypeOK, SendOrDrop
    <2>4. todo' \in [Events -> SUBSET Subs] /\ call' \in [Events -> {"idle", "enqueueing", "returned"}]
      BY <2>1 DEF TypeOK
    <2>5. QED BY <1>4, <2>3, <2>4 DEF TypeOK, Enqueue
  <1>5. CASE Take
    <2>1. queue' \in Seq(Task) /\ Len(queue') <= QueueCap /\ current' \in Task
      BY <1>5, TakeFacts, LenProperties DEF TypeOK, Take
    <2>2. tries' \in [Deliveries -> Nat]
      BY <1>5, TakeFacts DEF TypeOK, Take
    <2>3. QED BY <1>5, <2>1, <2>2 DEF TypeOK, Take, ExecuteDelivery
  <1>6. CASE DeliverySucceeds
    BY <1>6, BusyHasTask DEF TypeOK, DeliverySucceeds
  <1>7. CASE DeliveryGone
    BY <1>7, BusyHasTask DEF TypeOK, DeliveryGone
  <1>8. CASE DeliveryFails
    <2>1. current \in Task /\ current.sub \in Subs /\ current.event \in Events
          /\ current.attempt \in 0..Retries
      BY <1>8, BusyHasTask DEF DeliveryFails
    <2>2. RetriesAfter(current) \subseteq RetryTask
      <3>1. ASSUME current.attempt < Retries PROVE Retry(current) \in RetryTask
        <4>1. current.attempt + 1 \in 0..Retries
          BY <2>1, <3>1
        <4>2. FALSE \in BOOLEAN
          OBVIOUS
        <4>3. QED BY <2>1, <4>1, <4>2 DEF Retry, RetryTask
      <3>2. QED BY <3>1 DEF RetriesAfter
    <2>3. retrying' \subseteq RetryTask /\ workerPc' \in {"select", "deactivating"}
      BY <1>8, <2>2 DEF DeliveryFails, TypeOK
    <2>4. failures' \in [Subs -> Nat]
      <3>1. failures' = [failures EXCEPT ![current.sub] = @ + 1]
        BY <1>8 DEF DeliveryFails
      <3>2. failures \in [Subs -> Nat]
        BY DEF TypeOK
      <3>3. QED BY ONLY <2>1, <3>1, <3>2, CounterBumped
    <2>5. streak' \in [Subs -> Nat]
      <3>1. streak' = [streak EXCEPT ![current.sub] = @ + 1] \/ streak' = streak
        BY <1>8 DEF DeliveryFails, TypeOK
      <3>2. streak \in [Subs -> Nat]
        BY DEF TypeOK
      <3>3. QED BY ONLY <2>1, <3>1, <3>2, CounterBumped
    <2>6. QED BY <1>8, <2>1, <2>3, <2>4, <2>5 DEF DeliveryFails, TypeOK
  <1>9. CASE Deactivate
    BY <1>9, BusyHasTask DEF TypeOK, Deactivate, UpdateRow
  <1>10. CASE WorkerExits
    BY <1>10 DEF TypeOK, WorkerExits
  <1>11. ASSUME NEW r \in retrying, RetryDue(r) PROVE TypeOK'
    BY <1>11 DEF TypeOK, RetryDue, RetryTask
  <1>12. ASSUME NEW r \in retrying, RetrySends(r) PROVE TypeOK'
    <2>1. [event |-> r.event, sub |-> r.sub, attempt |-> r.attempt] \in Task
      BY DEF TypeOK, Task, RetryTask
    <2>2. queue' \in Seq(Task) /\ Len(queue') <= QueueCap
      BY <1>12, <2>1, AppendFacts DEF TypeOK, RetrySends
    <2>3. QED BY <1>12, <2>2 DEF TypeOK, RetrySends
  <1>13. ASSUME NEW r \in retrying, RetryQuits(r) PROVE TypeOK'
    BY <1>13 DEF TypeOK, RetryQuits
  <1>14. CASE Stop \/ StopReturns \/ CancelContext
    BY <1>14 DEF TypeOK, Stop, StopReturns, CancelContext
  <1>15. CASE Restart
    <2>1. queue' \in Seq(Task) /\ Len(queue') <= QueueCap
      BY <1>15, EmptyQueue DEF Restart
    <2>2. restarts' \in 0..MaxRestarts
      BY <1>15 DEF Restart, TypeOK
    <2>3. call' \in [Events -> {"idle", "enqueueing", "returned"}]
          /\ todo' \in [Events -> SUBSET Subs]
      BY <1>15 DEF Restart, TypeOK
    <2>4. QED BY <1>15, <2>1, <2>2, <2>3 DEF TypeOK, Restart
  <1>16. CASE UNCHANGED vars
    BY <1>16 DEF TypeOK, vars
  <1>17. QED
    BY <1>1, <1>2, <1>3, <1>4, <1>5, <1>6, <1>7, <1>8, <1>9, <1>10, <1>11,
       <1>12, <1>13, <1>14, <1>15, <1>16 DEF Next, Worker, RetryGoroutine

\* Every variable stays within its type, the queue within its capacity and
\* the attempt number of a task within the retry delays.
THEOREM TypeCorrect == Spec => []TypeOK
  <1>1. QED BY TypeOKInit, TypeOKStep, PTL DEF Spec

-----------------------------------------------------------------------------
(***************************************************************************)
(* Where a delivery is.  Each action moves deliveries between the four     *)
(* places; the lemmas below say which, and the invariant follows by set    *)
(* reasoning alone.                                                        *)
(***************************************************************************)

\* The inductive strengthening of OneCopy and AttemptsCounted: what is held
\* or delivered was offered, an event not yet dispatched has offered nothing,
\* and a delivered task is no longer held.
Placement ==
  /\ OneCopy
  /\ AttemptsCounted
  /\ Held \cup delivered \subseteq offered
  /\ Held \cap delivered = {}
  /\ \A d \in offered : call[d[1]] # "idle"
  /\ \A d \in Deliveries : d \notin offered => tries[d] = 0
  /\ \A d \in Deliveries : tries[d] <= Retries + 1

LEMMA PlacesTyped ==
  ASSUME TypeOK
  PROVE  /\ Waiting \subseteq Deliveries /\ Queued \subseteq Deliveries
         /\ InHand \subseteq Deliveries /\ Delayed \subseteq Deliveries
  <1>1. Queued \subseteq Deliveries
    <2>1. \A i \in 1..Len(queue) : queue[i] \in Task
      BY ElementOfSeq DEF TypeOK
    <2>2. QED BY <2>1 DEF Queued, Task, Id, Deliveries
  <1>2. InHand \subseteq Deliveries
    BY BusyHasTask DEF InHand
  <1>3. Delayed \subseteq Deliveries
    BY DEF Delayed, TypeOK, RetryTask, Id, Deliveries
  <1>4. QED BY <1>1, <1>2, <1>3 DEF Waiting

LEMMA ListsPlaces ==
  ASSUME TypeOK, NEW e \in Events, DispatchLists(e)
  PROVE  /\ Waiting' \subseteq Waiting \cup ({e} \X ListActiveByEvent(e))
         /\ Queued' = Queued /\ InHand' = InHand /\ Delayed' = Delayed
  BY DEF TypeOK, DispatchLists, Waiting, Queued, InHand, Delayed, worker, Deliveries

LEMMA EnqueuePlaces ==
  ASSUME TypeOK, NEW e \in Events, Enqueue(e)
  PROVE  \E s \in todo[e] :
           /\ <<e, s>> \in Waiting
           /\ Waiting' = Waiting \ {<<e, s>>}
           /\ \/ queue' = queue
              \/ queue' = Append(queue, [event |-> e, sub |-> s, attempt |-> 0])
           /\ InHand' = InHand /\ Delayed' = Delayed
  <1>1. PICK s \in todo[e] :
          /\ SendOrDrop([event |-> e, sub |-> s, attempt |-> 0])
          /\ todo' = [todo EXCEPT ![e] = @ \ {s}]
    BY DEF Enqueue
  <1>2. s \in Subs
    BY DEF TypeOK
  <1>3. Waiting' = Waiting \ {<<e, s>>} /\ <<e, s>> \in Waiting
    BY <1>1, <1>2 DEF TypeOK, Waiting, Deliveries
  <1>4. InHand' = InHand /\ Delayed' = Delayed
    BY DEF Enqueue, InHand, Delayed, worker
  <1>5. QED BY <1>1, <1>3, <1>4 DEF SendOrDrop

LEMMA AppendPlaces ==
  ASSUME TypeOK, NEW t \in Task, queue' = Append(queue, t)
  PROVE  Queued' = Queued \cup {Id(t)}
  <1>1. Len(queue) \in Nat /\ Len(queue') = Len(queue) + 1
        /\ (\A i \in 1..Len(queue) : queue'[i] = queue[i])
        /\ queue'[Len(queue) + 1] = t
    BY AppendFacts, LenProperties DEF TypeOK
  <1>2. Queued' \subseteq Queued \cup {Id(t)}
    BY <1>1 DEF Queued, Id
  <1>3. Queued \subseteq Queued'
    BY <1>1 DEF Queued, Id
  <1>4. Id(t) \in Queued'
    BY <1>1 DEF Queued, Id
  <1>5. QED BY <1>2, <1>3, <1>4

LEMMA TakePlaces ==
  ASSUME TypeOK, OneCopy, Take
  PROVE  /\ InHand = {} /\ InHand' = {Id(Head(queue))}
         /\ Id(Head(queue)) \in Queued
         /\ Queued' = Queued \ {Id(Head(queue))}
         /\ Waiting' = Waiting /\ Delayed' = Delayed
  <1>1. queue # <<>> /\ queue' = Tail(queue) /\ current' = Head(queue)
        /\ workerPc = "select" /\ workerPc' \in {"delivering", "aborted"}
    BY DEF Take, ExecuteDelivery
  <1>2. Len(queue) \in Nat /\ Len(queue) # 0
    BY <1>1, EmptySeq, LenProperties DEF TypeOK
  <1>3. Head(queue) = queue[1] /\ Len(queue') = Len(queue) - 1
        /\ \A i \in 1..Len(queue') : queue'[i] = queue[i + 1]
    BY <1>1, TakeFacts
  <1>4. Id(Head(queue)) \in Queued
    BY <1>2, <1>3 DEF Queued, Id
  <1>5. Queued' \subseteq Queued \ {Id(Head(queue))}
    <2>1. ASSUME NEW i \in 1..Len(queue')
          PROVE  Id(queue'[i]) \in Queued /\ Id(queue'[i]) # Id(queue[1])
      BY <1>2, <1>3 DEF Queued, OneCopy, Id
    <2>2. QED BY <2>1, <1>3 DEF Queued
  <1>6. Queued \ {Id(Head(queue))} \subseteq Queued'
    <2>1. ASSUME NEW i \in 1..Len(queue), i # 1
          PROVE  Id(queue[i]) \in Queued'
      <3>1. i - 1 \in 1..Len(queue') /\ queue'[i - 1] = queue[i]
        BY <1>2, <1>3, <2>1
      <3>2. QED BY <3>1 DEF Queued, Id
    <2>2. QED BY <2>1, <1>3 DEF Queued
  <1>7. InHand = {} /\ InHand' = {Id(Head(queue))}
    BY <1>1 DEF InHand, Id
  <1>8. Waiting' = Waiting /\ Delayed' = Delayed
    BY DEF Take, service, Waiting, Delayed
  <1>9. QED BY <1>4, <1>5, <1>6, <1>7, <1>8


LEMMA EnqueueTask ==
  ASSUME TypeOK, NEW e \in Events, NEW s \in todo[e]
  PROVE  /\ [event |-> e, sub |-> s, attempt |-> 0] \in Task
         /\ Id([event |-> e, sub |-> s, attempt |-> 0]) = <<e, s>>
  BY DEF TypeOK, Task, Id

LEMMA RetryTaskFacts ==
  ASSUME TypeOK, NEW r \in retrying
  PROVE  /\ [event |-> r.event, sub |-> r.sub, attempt |-> r.attempt] \in Task
         /\ Id([event |-> r.event, sub |-> r.sub, attempt |-> r.attempt]) = Id(r)
         /\ Id(r) \in Delayed
  BY DEF TypeOK, Task, RetryTask, Id, Delayed

\* A task that is not in the queue can be appended to it.
LEMMA AppendKeeps ==
  ASSUME TypeOK, NEW t \in Task, Id(t) \notin Queued,
         queue' = Append(queue, t), tries' = tries, tries[Id(t)] = t.attempt,
         \A i, j \in 1..Len(queue) : Id(queue[i]) = Id(queue[j]) => i = j,
         \A i \in 1..Len(queue) : tries[Id(queue[i])] = queue[i].attempt
  PROVE  /\ \A i, j \in 1..Len(queue') : Id(queue'[i]) = Id(queue'[j]) => i = j
         /\ \A i \in 1..Len(queue') : tries'[Id(queue'[i])] = queue'[i].attempt
  <1>1. Len(queue) \in Nat /\ Len(queue') = Len(queue) + 1
        /\ (\A i \in 1..Len(queue) : queue'[i] = queue[i])
        /\ queue'[Len(queue) + 1] = t
    BY AppendFacts, LenProperties DEF TypeOK
  <1>2. \A i \in 1..Len(queue) : Id(queue[i]) # Id(t)
    BY DEF Queued
  <1>3. \A i \in 1..Len(queue') : i \in 1..Len(queue) \/ i = Len(queue) + 1
    BY <1>1
  <1>4. ASSUME NEW i \in 1..Len(queue'), NEW j \in 1..Len(queue'),
               Id(queue'[i]) = Id(queue'[j])
        PROVE  i = j
    <2>1. CASE i \in 1..Len(queue) /\ j \in 1..Len(queue)
      BY <1>1, <1>4, <2>1
    <2>2. CASE i = Len(queue) + 1 /\ j \in 1..Len(queue)
      BY <1>1, <1>2, <1>4, <2>2
    <2>3. CASE i \in 1..Len(queue) /\ j = Len(queue) + 1
      BY <1>1, <1>2, <1>4, <2>3
    <2>4. QED BY <1>3, <2>1, <2>2, <2>3
  <1>5. ASSUME NEW i \in 1..Len(queue')
        PROVE  tries'[Id(queue'[i])] = queue'[i].attempt
    BY <1>1, <1>3
  <1>6. QED BY <1>4, <1>5

\* Taking the head leaves the rest of the queue as it was.
LEMMA TakeKeeps ==
  ASSUME TypeOK, OneCopy, AttemptsCounted, Take
  PROVE  /\ \A i, j \in 1..Len(queue') : Id(queue'[i]) = Id(queue'[j]) => i = j
         /\ \A i \in 1..Len(queue') : tries'[Id(queue'[i])] = queue'[i].attempt
         /\ tries'[Id(current')] = current'.attempt + 1
  <1>1. queue # <<>> /\ queue' = Tail(queue) /\ current' = Head(queue)
    BY DEF Take
  <1>2. Len(queue) \in Nat /\ Len(queue) # 0
    BY <1>1, EmptySeq, LenProperties DEF TypeOK
  <1>3. Head(queue) = queue[1] /\ Len(queue') = Len(queue) - 1
        /\ \A i \in 1..Len(queue') : queue'[i] = queue[i + 1]
    BY <1>1, TakeFacts
  <1>4. \A i \in 1..Len(queue) : queue[i] \in Task /\ Id(queue[i]) \in Deliveries
    <2>1. \A i \in 1..Len(queue) : queue[i] \in Task
      BY ElementOfSeq DEF TypeOK
    <2>2. QED BY <2>1 DEF Task, Id, Deliveries
  <1>5. tries' = [tries EXCEPT ![Id(queue[1])] = @ + 1]
    BY <1>3 DEF Take
  <1>6. ASSUME NEW i \in 1..Len(queue')
        PROVE  /\ i + 1 \in 1..Len(queue) /\ queue'[i] = queue[i + 1]
               /\ Id(queue'[i]) # Id(queue[1])
    BY <1>2, <1>3 DEF OneCopy
  <1>7. \A i, j \in 1..Len(queue') : Id(queue'[i]) = Id(queue'[j]) => i = j
    <2>1. \A i, j \in 1..Len(queue') : Id(queue'[i]) = Id(queue'[j]) => i + 1 = j + 1
      BY <1>6 DEF OneCopy
    <2>2. QED BY <2>1, <1>2, <1>3
  <1>8. ASSUME NEW i \in 1..Len(queue')
        PROVE  tries'[Id(queue'[i])] = queue'[i].attempt
    <2>1. tries'[Id(queue[i + 1])] = tries[Id(queue[i + 1])]
      BY <1>4, <1>5, <1>6 DEF TypeOK
    <2>2. QED BY <1>6, <2>1 DEF AttemptsCounted
  <1>9. tries'[Id(current')] = current'.attempt + 1
    <2>1. 1 \in 1..Len(queue) /\ current' = queue[1]
      BY <1>1, <1>2, <1>3
    <2>2. tries[Id(queue[1])] = queue[1].attempt
      BY <2>1 DEF AttemptsCounted
    <2>3. tries'[Id(queue[1])] = tries[Id(queue[1])] + 1
      BY <1>4, <1>5, <2>1 DEF TypeOK
    <2>4. QED BY <2>1, <2>2, <2>3 DEF Id
  <1>10. QED BY <1>7, <1>8, <1>9


LEMMA PlacementInit == Init => Placement
  <1> SUFFICES ASSUME Init PROVE Placement
    OBVIOUS
  <1>1. Len(queue) = 0 /\ 1..Len(queue) = {}
    BY EmptyQueue DEF Init
  <1>2. Held = {}
    BY <1>1 DEF Init, Held, Waiting, Queued, InHand, Delayed, Deliveries
  <1>3. OneCopy /\ AttemptsCounted
    BY <1>1, <1>2 DEF Init, OneCopy, AttemptsCounted, Held
  <1>4. \A d \in Deliveries : tries[d] = 0 /\ tries[d] <= Retries + 1
    BY DEF Init
  <1>5. QED BY <1>2, <1>3, <1>4 DEF Init, Placement

\* An action that moves nothing and counts nothing preserves the invariant.
LEMMA PlacementUnmoved ==
  ASSUME Placement, UNCHANGED <<call, todo, queue, workerPc, current, retrying>>,
         UNCHANGED <<offered, delivered, tries>>
  PROVE  Placement'
  BY DEF Placement, OneCopy, AttemptsCounted, Held, Waiting, Queued, InHand,
         Delayed, Id

LEMMA PlacementStep == TypeOK /\ TypeOK' /\ Placement /\ [Next]_vars => Placement'
  <1> SUFFICES ASSUME TypeOK, TypeOK', Placement, [Next]_vars PROVE Placement'
    OBVIOUS
  <1> USE DEF service, worker, control, history
  <1>a. Waiting \subseteq Deliveries /\ Queued \subseteq Deliveries
        /\ InHand \subseteq Deliveries /\ Delayed \subseteq Deliveries
    BY PlacesTyped
  <1>1. ASSUME NEW s \in Subs, CreateSubscription(s) \/ DeleteSubscription(s)
        PROVE  Placement'
    BY <1>1, PlacementUnmoved DEF CreateSubscription, DeleteSubscription
  <1>2. ASSUME NEW e \in Events, DispatchFails(e) PROVE Placement'
    <2>1. Held' = Held /\ OneCopy' /\ AttemptsCounted'
      BY <1>2 DEF DispatchFails, Placement, OneCopy, AttemptsCounted, Held,
                  Waiting, Queued, InHand, Delayed, Id
    <2>2. \A d \in offered' : call'[d[1]] # "idle"
      BY <1>2 DEF DispatchFails, Placement, TypeOK, Deliveries
    <2>3. QED BY <1>2, <2>1, <2>2 DEF DispatchFails, Placement
  <1>3. ASSUME NEW e \in Events, DispatchLists(e) PROVE Placement'
    <2> DEFINE new == {e} \X ListActiveByEvent(e)
    <2>1. Waiting' \subseteq Waiting \cup new /\ Queued' = Queued
          /\ InHand' = InHand /\ Delayed' = Delayed
      BY <1>3, ListsPlaces
    <2>2. call[e] = "idle" /\ offered' = offered \cup new /\ new \subseteq Deliveries
      BY <1>3 DEF DispatchLists, ListActiveByEvent, Deliveries
    <2>3. new \cap offered = {}
      BY <2>2 DEF Placement
    <2>4. \A d \in new : tries[d] = 0
      BY <2>2, <2>3 DEF Placement
    <2>5. OneCopy'
      <3>1. Waiting' \cap (Queued' \cup InHand' \cup Delayed') = {}
        BY <2>1, <2>3 DEF Placement, OneCopy, Held
      <3>2. QED BY <1>3, <2>1, <3>1 DEF DispatchLists, Placement, OneCopy, Id
    <2>6. AttemptsCounted'
      <3>1. \A d \in Waiting' : tries'[d] = 0
        BY <1>3, <2>1, <2>4 DEF DispatchLists, Placement, AttemptsCounted
      <3>2. QED BY <1>3, <3>1 DEF DispatchLists, Placement, AttemptsCounted, Id
    <2>7. Held' \cup delivered' \subseteq offered' /\ Held' \cap delivered' = {}
      BY <1>3, <2>1, <2>2, <2>3 DEF DispatchLists, Placement, Held
    <2>8. \A d \in offered' : call'[d[1]] # "idle"
      <3>1. \A d \in offered' : d \in Deliveries
        BY DEF TypeOK
      <3>2. QED BY <1>3, <2>2, <3>1 DEF DispatchLists, Placement, TypeOK, Deliveries
    <2>9. QED BY <1>3, <2>2, <2>5, <2>6, <2>7, <2>8 DEF DispatchLists, Placement
  <1>4. ASSUME NEW e \in Events, Enqueue(e) PROVE Placement'
    <2>1. PICK s \in todo[e] :
            /\ <<e, s>> \in Waiting
            /\ Waiting' = Waiting \ {<<e, s>>}
            /\ \/ queue' = queue
               \/ queue' = Append(queue, [event |-> e, sub |-> s, attempt |-> 0])
            /\ InHand' = InHand /\ Delayed' = Delayed
      BY <1>4, EnqueuePlaces
    <2> DEFINE t == [event |-> e, sub |-> s, attempt |-> 0]
    <2>2. t \in Task /\ Id(t) = <<e, s>> /\ t.attempt = 0
      BY EnqueueTask
    <2>3. Queued' \subseteq Queued \cup {<<e, s>>}
      <3>1. CASE queue' = queue
        BY <3>1 DEF Queued
      <3>2. CASE queue' = Append(queue, t)
        BY <2>2, <3>2, AppendPlaces
      <3>3. QED BY <2>1, <3>1, <3>2
    <2>4. tries' = tries /\ tries[<<e, s>>] = 0 /\ <<e, s>> \notin Queued
      BY <1>4, <2>1 DEF Enqueue, Placement, AttemptsCounted, OneCopy
    <2>5. /\ \A i, j \in 1..Len(queue') : Id(queue'[i]) = Id(queue'[j]) => i = j
          /\ \A i \in 1..Len(queue') : tries'[Id(queue'[i])] = queue'[i].attempt
      <3>1. /\ \A i, j \in 1..Len(queue) : Id(queue[i]) = Id(queue[j]) => i = j
            /\ \A i \in 1..Len(queue) : tries[Id(queue[i])] = queue[i].attempt
        BY DEF Placement, OneCopy, AttemptsCounted
      <3>2. CASE queue' = queue
        BY <2>4, <3>1, <3>2
      <3>3. CASE queue' = Append(queue, t)
        BY <2>2, <2>4, <3>1, <3>3, AppendKeeps
      <3>4. QED BY <2>1, <3>2, <3>3
    <2>6. OneCopy'
      <3>1. /\ Waiting' \cap (Queued' \cup InHand' \cup Delayed') = {}
            /\ Queued' \cap (InHand' \cup Delayed') = {}
            /\ InHand' \cap Delayed' = {}
        BY <2>1, <2>3 DEF Placement, OneCopy
      <3>2. \A q, r \in retrying' : Id(q) = Id(r) => q = r
        BY <1>4 DEF Enqueue, Placement, OneCopy, Id
      <3>3. QED BY <2>5, <3>1, <3>2 DEF OneCopy, Id
    <2>7. AttemptsCounted'
      BY <1>4, <2>1, <2>4, <2>5 DEF Enqueue, Placement, AttemptsCounted, Id
    <2>8. Held' \subseteq Held
      BY <2>1, <2>3 DEF Held
    <2>9. \A d \in offered' : call'[d[1]] # "idle"
      <3>1. \A d \in offered' : d \in Deliveries
        BY DEF TypeOK
      <3>2. offered' = offered /\ \E x \in {"returned", "enqueueing"} : call' = [call EXCEPT ![e] = x]
        BY <1>4 DEF Enqueue
      <3>3. QED BY <3>1, <3>2 DEF Placement, TypeOK, Deliveries
    <2>10. QED BY <1>4, <2>6, <2>7, <2>8, <2>9 DEF Enqueue, Placement
  <1>5. CASE Take
    <2>1. InHand = {} /\ InHand' = {Id(Head(queue))} /\ Id(Head(queue)) \in Queued
          /\ Queued' = Queued \ {Id(Head(queue))}
          /\ Waiting' = Waiting /\ Delayed' = Delayed
      BY <1>5, TakePlaces DEF Placement
    <2>2. /\ \A i, j \in 1..Len(queue') : Id(queue'[i]) = Id(queue'[j]) => i = j
          /\ \A i \in 1..Len(queue') : tries'[Id(queue'[i])] = queue'[i].attempt
          /\ tries'[Id(current')] = current'.attempt + 1
      BY <1>5, TakeKeeps DEF Placement
    <2>3. tries' = [tries EXCEPT ![Id(Head(queue))] = @ + 1]
          /\ retrying' = retrying /\ current' = Head(queue)
      BY <1>5 DEF Take
    <2>4. OneCopy'
      <3>1. /\ Waiting' \cap (Queued' \cup InHand' \cup Delayed') = {}
            /\ Queued' \cap (InHand' \cup Delayed') = {}
            /\ InHand' \cap Delayed' = {}
        BY <2>1 DEF Placement, OneCopy
      <3>2. \A q, r \in retrying' : Id(q) = Id(r) => q = r
        BY <2>3 DEF Placement, OneCopy, Id
      <3>3. QED BY <2>2, <3>1, <3>2 DEF OneCopy, Id
    <2>5. \A d \in Deliveries : d # Id(Head(queue)) => tries'[d] = tries[d]
      BY <2>3 DEF TypeOK
    <2>6. AttemptsCounted'
      <3>1. \A d \in Waiting' : tries'[d] = 0
        BY <1>a, <2>1, <2>5 DEF Placement, OneCopy, AttemptsCounted
      <3>2. \A r \in retrying' : tries'[Id(r)] = r.attempt
        <4>1. \A r \in retrying : Id(r) \in Delayed
          BY DEF Delayed
        <4>2. \A r \in retrying : Id(r) \in Deliveries /\ Id(r) # Id(Head(queue))
          BY <1>a, <2>1, <4>1 DEF Placement, OneCopy
        <4>3. QED BY <2>3, <2>5, <4>2 DEF Placement, AttemptsCounted
      <3>3. QED BY <2>2, <3>1, <3>2 DEF AttemptsCounted, Id
    <2>7. \A d \in Deliveries : tries'[d] <= Retries + 1
      <3>1. tries'[Id(current')] <= Retries + 1
        BY <1>5, <2>2, TakeFacts DEF Take, Task
      <3>2. QED BY <2>3, <2>5, <3>1 DEF Placement, Id
    <2>8. Held' = Held /\ delivered' = delivered /\ offered' = offered
      BY <1>5, <2>1 DEF Take, Held
    <2>9. \A d \in Deliveries : d \notin offered => tries'[d] = 0
      BY <2>1, <2>5 DEF Placement, Held
    <2>10. QED BY <1>5, <2>4, <2>6, <2>7, <2>8, <2>9 DEF Take, Placement
  <1>6. CASE DeliverySucceeds
    <2>1. InHand = {Id(current)} /\ InHand' = {} /\ Waiting' = Waiting
          /\ Queued' = Queued /\ Delayed' = Delayed
      BY <1>6 DEF DeliverySucceeds, InHand, Waiting, Queued, Delayed
    <2>2. OneCopy' /\ AttemptsCounted'
      BY <1>6, <2>1 DEF DeliverySucceeds, Placement, OneCopy, AttemptsCounted, Id
    <2>3. Held' \cup delivered' \subseteq offered' /\ Held' \cap delivered' = {}
      BY <1>6, <2>1 DEF DeliverySucceeds, Placement, OneCopy, Held
    <2>4. QED BY <1>6, <2>2, <2>3 DEF DeliverySucceeds, Placement
  <1>7. CASE DeliveryGone
    <2>1. InHand' = {} /\ Waiting' = Waiting /\ Queued' = Queued /\ Delayed' = Delayed
      BY <1>7 DEF DeliveryGone, InHand, Waiting, Queued, Delayed
    <2>2. OneCopy' /\ AttemptsCounted' /\ Held' \subseteq Held
      BY <1>7, <2>1 DEF DeliveryGone, Placement, OneCopy, AttemptsCounted, Held, Id
    <2>3. QED BY <1>7, <2>2 DEF DeliveryGone, Placement
  <1>8. CASE DeliveryFails
    <2>1. current \in Task /\ tries[Id(current)] = current.attempt + 1
          /\ workerPc \in {"delivering", "aborted"} /\ workerPc' \in {"select", "deactivating"}
          /\ (retrying' = retrying \/ retrying' = retrying \cup RetriesAfter(current))
      BY <1>8, BusyHasTask DEF DeliveryFails, Placement, AttemptsCounted
    <2>2. InHand = {Id(current)} /\ InHand' = {} /\ Waiting' = Waiting /\ Queued' = Queued
      BY <1>8, <2>1 DEF DeliveryFails, InHand, Waiting, Queued
    <2>3. \A r \in retrying' : r \in retrying \/ r = Retry(current)
      BY <2>1 DEF RetriesAfter
    <2>4. Id(Retry(current)) = Id(current) /\ Retry(current).attempt = current.attempt + 1
      BY <2>1 DEF Retry, Id, Task
    <2>5. Delayed' \subseteq Delayed \cup {Id(current)}
      BY <2>3, <2>4 DEF Delayed, Id
    <2>6. \A r \in retrying : Id(r) \in Delayed /\ Id(r) # Id(current)
      BY <2>2 DEF Delayed, Placement, OneCopy
    <2>7. OneCopy'
      <3>1. /\ Waiting' \cap (Queued' \cup InHand' \cup Delayed') = {}
            /\ Queued' \cap (InHand' \cup Delayed') = {}
            /\ InHand' \cap Delayed' = {}
        BY <2>2, <2>5 DEF Placement, OneCopy
      <3>2. \A q, r \in retrying' : Id(q) = Id(r) => q = r
        BY <2>3, <2>4, <2>6 DEF Placement, OneCopy
      <3>3. QED BY <1>8, <3>1, <3>2 DEF DeliveryFails, Placement, OneCopy, Id
    <2>8. AttemptsCounted'
      <3>1. \A r \in retrying' : tries[Id(r)] = r.attempt
        BY <2>1, <2>3, <2>4 DEF Placement, AttemptsCounted
      <3>2. QED BY <1>8, <2>1, <2>2, <3>1 DEF DeliveryFails, Placement, AttemptsCounted, Id
    <2>9. Held' \subseteq Held
      BY <2>2, <2>5 DEF Held
    <2>10. QED BY <1>8, <2>7, <2>8, <2>9 DEF DeliveryFails, Placement
  <1>9. CASE Deactivate \/ WorkerExits
    <2>1. InHand' = {} /\ Waiting' = Waiting /\ Queued' = Queued /\ Delayed' = Delayed
      BY <1>9 DEF Deactivate, WorkerExits, InHand, Waiting, Queued, Delayed
    <2>2. OneCopy' /\ AttemptsCounted' /\ Held' \subseteq Held
      BY <1>9, <2>1 DEF Deactivate, WorkerExits, Placement, OneCopy, AttemptsCounted, Held, Id
    <2>3. QED BY <1>9, <2>2 DEF Deactivate, WorkerExits, Placement
  <1>10. ASSUME NEW r \in retrying, RetryDue(r) PROVE Placement'
    <2> DEFINE due == [r EXCEPT !.due = TRUE]
    <2>1. r \in RetryTask /\ Id(due) = Id(r) /\ due.attempt = r.attempt
      BY DEF TypeOK, RetryTask, Id
    <2>2. retrying' = (retrying \ {r}) \cup {due}
      BY <1>10 DEF RetryDue
    <2>3. Delayed' = Delayed
      BY <2>1, <2>2 DEF Delayed, Id
    <2>4. Waiting' = Waiting /\ Queued' = Queued /\ InHand' = InHand
      BY <1>10 DEF RetryDue, Waiting, Queued, InHand
    <2>5. OneCopy'
      <3>1. \A p, q \in retrying' : Id(p) = Id(q) => p = q
        BY <2>1, <2>2 DEF Placement, OneCopy
      <3>2. QED BY <1>10, <2>3, <2>4, <3>1 DEF RetryDue, Placement, OneCopy, Id
    <2>6. AttemptsCounted'
      <3>1. \A q \in retrying' : tries[Id(q)] = q.attempt
        BY <2>1, <2>2 DEF Placement, AttemptsCounted
      <3>2. QED BY <1>10, <2>4, <3>1 DEF RetryDue, Placement, AttemptsCounted, Id
    <2>7. Held' = Held
      BY <2>3, <2>4 DEF Held
    <2>8. QED BY <1>10, <2>5, <2>6, <2>7 DEF RetryDue, Placement
  <1>11. ASSUME NEW r \in retrying, RetrySends(r) PROVE Placement'
    <2> DEFINE t == [event |-> r.event, sub |-> r.sub, attempt |-> r.attempt]
    <2>1. t \in Task /\ Id(t) = Id(r) /\ Id(r) \in Delayed /\ t.attempt = r.attempt
      BY RetryTaskFacts
    <2>2. queue' = Append(queue, t) /\ retrying' = retrying \ {r} /\ tries' = tries
      BY <1>11 DEF RetrySends
    <2>3. Queued' = Queued \cup {Id(r)}
      BY <2>1, <2>2, AppendPlaces
    <2>4. Delayed' = Delayed \ {Id(r)}
      BY <2>2 DEF Delayed, Placement, OneCopy, Id
    <2>5. Waiting' = Waiting /\ InHand' = InHand
      BY <1>11 DEF RetrySends, Waiting, InHand
    <2>6. tries[Id(t)] = t.attempt /\ Id(t) \notin Queued
      BY <2>1 DEF Placement, OneCopy, AttemptsCounted
    <2>7. /\ \A i, j \in 1..Len(queue') : Id(queue'[i]) = Id(queue'[j]) => i = j
          /\ \A i \in 1..Len(queue') : tries'[Id(queue'[i])] = queue'[i].attempt
      BY <2>1, <2>2, <2>6, AppendKeeps DEF Placement, OneCopy, AttemptsCounted
    <2>8. OneCopy'
      <3>1. /\ Waiting' \cap (Queued' \cup InHand' \cup Delayed') = {}
            /\ Queued' \cap (InHand' \cup Delayed') = {}
            /\ InHand' \cap Delayed' = {}
        BY <2>1, <2>3, <2>4, <2>5 DEF Placement, OneCopy
      <3>2. \A p, q \in retrying' : Id(p) = Id(q) => p = q
        BY <2>2 DEF Placement, OneCopy
      <3>3. QED BY <2>7, <3>1, <3>2 DEF OneCopy, Id
    <2>9. AttemptsCounted'
      BY <1>11, <2>2, <2>5, <2>7 DEF RetrySends, Placement, AttemptsCounted, Id
    <2>10. Held' = Held
      BY <2>1, <2>3, <2>4, <2>5 DEF Held
    <2>11. QED BY <1>11, <2>8, <2>9, <2>10 DEF RetrySends, Placement
  <1>12. ASSUME NEW r \in retrying, RetryQuits(r) PROVE Placement'
    <2>1. Delayed' \subseteq Delayed /\ retrying' \subseteq retrying
      BY <1>12 DEF RetryQuits, Delayed, Id
    <2>2. Waiting' = Waiting /\ Queued' = Queued /\ InHand' = InHand
      BY <1>12 DEF RetryQuits, Waiting, Queued, InHand
    <2>3. OneCopy'
      BY <1>12, <2>1, <2>2 DEF RetryQuits, Placement, OneCopy, Id
    <2>4. AttemptsCounted'
      BY <1>12, <2>1, <2>2 DEF RetryQuits, Placement, AttemptsCounted, Id
    <2>5. Held' \subseteq Held
      BY <2>1, <2>2 DEF Held
    <2>6. QED BY <1>12, <2>3, <2>4, <2>5 DEF RetryQuits, Placement
  <1>13. CASE Stop \/ StopReturns \/ CancelContext
    BY <1>13, PlacementUnmoved DEF Stop, StopReturns, CancelContext
  <1>14. CASE Restart
    <2>1. 1..Len(queue') = {} /\ retrying' = {} /\ workerPc' = "select"
      BY <1>14, EmptyQueue DEF Restart
    <2>2. Held' = {}
      BY <1>14, <2>1 DEF Restart, Held, Waiting, Queued, InHand, Delayed, Deliveries
    <2>3. OneCopy' /\ AttemptsCounted'
      BY <2>1, <2>2 DEF OneCopy, AttemptsCounted, Held
    <2>4. \A d \in offered' : call'[d[1]] # "idle"
      <3>1. \A d \in offered : d[1] \in Events
        BY DEF TypeOK, Deliveries
      <3>2. QED BY <1>14, <3>1 DEF Restart, Placement
    <2>5. QED BY <1>14, <2>2, <2>3, <2>4 DEF Restart, Placement
  <1>15. CASE UNCHANGED vars
    BY <1>15, PlacementUnmoved DEF vars
  <1>16. QED
    BY <1>1, <1>2, <1>3, <1>4, <1>5, <1>6, <1>7, <1>8, <1>9, <1>10, <1>11,
       <1>12, <1>13, <1>14, <1>15 DEF Next, Worker, RetryGoroutine

LEMMA PlacementHolds == Spec => []Placement
  <1>1. TypeOK /\ Placement /\ [Next]_vars => Placement'
    BY TypeOKStep, PlacementStep
  <1>2. QED BY <1>1, PlacementInit, TypeCorrect, PTL DEF Spec

\* No interleaving of handlers, worker, retries, stops and restarts leaves two
\* copies of a delivery in the process.
THEOREM NoSecondCopy == Spec => []OneCopy
  <1>1. Placement => OneCopy
    BY DEF Placement
  <1>2. QED BY <1>1, PlacementHolds, PTL

\* The attempt number a task carries counts the attempts made for it.
THEOREM AttemptsAreCounted == Spec => []AttemptsCounted
  <1>1. Placement => AttemptsCounted
    BY DEF Placement
  <1>2. QED BY <1>1, PlacementHolds, PTL

\* A delivery is attempted at most once and once per retry delay.
THEOREM AttemptsBounded == Spec => [](\A d \in Deliveries : tries[d] <= Retries + 1)
  <1>1. Placement => \A d \in Deliveries : tries[d] <= Retries + 1
    BY DEF Placement
  <1>2. QED BY <1>1, PlacementHolds, PTL


-----------------------------------------------------------------------------
(***************************************************************************)
(* The dispatcher implements WebhookDelivery: every action is an Offer, an *)
(* Attempt, a Confirm or a Lose, or leaves the promise's variables alone.  *)
(***************************************************************************)

LEMMA FateIs ==
  ASSUME TypeOK, Placement
  PROVE  /\ Fate \in [Deliveries -> {"unsent", "live", "delivered", "lost"}]
         /\ \A d \in Deliveries :
              /\ d \in delivered => Fate[d] = "delivered"
              /\ d \in Held => Fate[d] = "live"
              /\ d \in offered /\ d \notin Held /\ d \notin delivered => Fate[d] = "lost"
              /\ d \notin offered => Fate[d] = "unsent"
  BY DEF Fate, Placement

\* While nothing is offered and nothing delivered, deliveries can only be lost.
LEMMA ShrinkingHeldLoses ==
  ASSUME TypeOK, Placement, TypeOK', Placement', Held' \subseteq Held,
         offered' = offered, delivered' = delivered, tries' = tries
  PROVE  Promise!Lose \/ UNCHANGED Promise!vars
  <1>1. /\ Fate' \in [Deliveries -> {"unsent", "live", "delivered", "lost"}]
        /\ \A d \in Deliveries :
              /\ d \in delivered => Fate'[d] = "delivered"
              /\ d \in Held' => Fate'[d] = "live"
              /\ d \in offered /\ d \notin Held' /\ d \notin delivered => Fate'[d] = "lost"
              /\ d \notin offered => Fate'[d] = "unsent"
    BY DEF Fate, Placement
  <1>2. \A d \in Deliveries :
          Fate'[d] # Fate[d] => Fate[d] = "live" /\ Fate'[d] = "lost"
    BY <1>1, FateIs DEF Placement
  <1>3. CASE Fate' = Fate
    BY <1>3 DEF Promise!vars
  <1>4. CASE Fate' # Fate
    BY <1>1, <1>2, <1>4 DEF Promise!Lose, Promise!Move, Promise!Fates
  <1>5. QED BY <1>3, <1>4

LEMMA PromiseInit == Init => Promise!Init
  <1> SUFFICES ASSUME Init PROVE Promise!Init
    OBVIOUS
  <1>1. 1..Len(queue) = {}
    BY EmptyQueue DEF Init
  <1>2. Held = {} /\ offered = {} /\ delivered = {}
    BY <1>1 DEF Init, Held, Waiting, Queued, InHand, Delayed, Deliveries
  <1>3. Fate = [d \in Deliveries |-> "unsent"]
    BY <1>2 DEF Fate
  <1>4. QED BY <1>3 DEF Init, Promise!Init

LEMMA PromiseStep ==
  TypeOK /\ Placement /\ TypeOK' /\ Placement' /\ [Next]_vars
    => [Promise!Next]_(Promise!vars)
  <1> SUFFICES ASSUME TypeOK, Placement, TypeOK', Placement', [Next]_vars
               PROVE  Promise!Next \/ UNCHANGED Promise!vars
    OBVIOUS
  <1> USE DEF service, worker, control, history
  <1>a. ASSUME Held' \subseteq Held, offered' = offered, delivered' = delivered,
               tries' = tries
        PROVE  Promise!Next \/ UNCHANGED Promise!vars
    BY <1>a, ShrinkingHeldLoses DEF Promise!Next
  <1>1. ASSUME NEW e \in Events, DispatchLists(e)
        PROVE  Promise!Next \/ UNCHANGED Promise!vars
    <2> DEFINE new == {e} \X ListActiveByEvent(e)
    <2>1. Waiting' \subseteq Waiting \cup new /\ Queued' = Queued
          /\ InHand' = InHand /\ Delayed' = Delayed
      BY <1>1, ListsPlaces
    <2>2. call[e] = "idle" /\ offered' = offered \cup new /\ new \subseteq Deliveries
          /\ delivered' = delivered /\ tries' = tries
          /\ todo' = [todo EXCEPT ![e] = ListActiveByEvent(e)]
      BY <1>1 DEF DispatchLists, ListActiveByEvent, Deliveries
    <2>3. new \cap offered = {} /\ \A d \in Waiting : d[1] # e
      BY <2>2 DEF Placement, Held
    <2>4. Waiting \cup new \subseteq Waiting'
      BY <2>2, <2>3 DEF Waiting, Deliveries, TypeOK
    <2>5. Held' = Held \cup new
      BY <2>1, <2>4 DEF Held
    <2>6. /\ Fate' \in [Deliveries -> {"unsent", "live", "delivered", "lost"}]
          /\ \A d \in Deliveries :
               /\ d \in new => Fate'[d] = "live" /\ Fate[d] = "unsent"
               /\ d \notin new => Fate'[d] = Fate[d]
      BY <2>2, <2>3, <2>5 DEF Fate, Placement
    <2>7. CASE Fate' = Fate
      BY <2>2, <2>7 DEF Promise!vars
    <2>8. CASE Fate' # Fate
      BY <2>2, <2>6, <2>8 DEF Promise!Next, Promise!Offer, Promise!Move, Promise!Fates
    <2>9. QED BY <2>7, <2>8
  <1>2. CASE Take
    <2>1. Id(Head(queue)) \in Deliveries /\ Id(Head(queue)) \in Held
          /\ Held' = Held
      BY <1>2, TakePlaces, TakeFacts DEF Take, Placement, Held
    <2>2. offered' = offered /\ delivered' = delivered
          /\ tries' = [tries EXCEPT ![Id(Head(queue))] = @ + 1]
      BY <1>2 DEF Take
    <2>3. Fate' = Fate /\ Fate[Id(Head(queue))] = "live"
      BY <2>1, <2>2, FateIs DEF Fate
    <2>4. tries[Id(Head(queue))] < Retries + 1
      <3>1. tries'[Id(Head(queue))] = tries[Id(Head(queue))] + 1
        BY <2>1, <2>2 DEF TypeOK
      <3>2. tries'[Id(Head(queue))] <= Retries + 1 /\ tries[Id(Head(queue))] \in Nat
        BY <2>1 DEF Placement, TypeOK
      <3>3. QED BY <3>1, <3>2
    <2>5. Promise!Attempt(Id(Head(queue)))
      BY <2>2, <2>3, <2>4 DEF Promise!Attempt
    <2>6. QED BY <2>1, <2>5 DEF Promise!Next
  <1>3. CASE DeliverySucceeds
    <2>1. Id(current) \in Deliveries /\ InHand = {Id(current)} /\ InHand' = {}
          /\ Waiting' = Waiting /\ Queued' = Queued /\ Delayed' = Delayed
      BY <1>3, BusyHasTask DEF DeliverySucceeds, InHand, Waiting, Queued, Delayed
    <2>2. offered' = offered /\ delivered' = delivered \cup {Id(current)}
          /\ tries' = tries /\ Id(current) \in Held
      BY <1>3, <2>1 DEF DeliverySucceeds, Held
    <2>3. Held' = Held \ {Id(current)}
      BY <2>1 DEF Placement, OneCopy, Held
    <2>4. Fate[Id(current)] = "live" /\ Fate' = [Fate EXCEPT ![Id(current)] = "delivered"]
      BY <2>1, <2>2, <2>3, FateIs DEF Fate, Placement
    <2>5. tries[Id(current)] > 0
      BY <1>3, BusyHasTask DEF DeliverySucceeds, Placement, AttemptsCounted
    <2>6. Promise!Confirm(Id(current))
      BY <2>2, <2>4, <2>5 DEF Promise!Confirm
    <2>7. QED BY <2>1, <2>6 DEF Promise!Next
  <1>4. ASSUME NEW e \in Events, Enqueue(e)
        PROVE  Promise!Next \/ UNCHANGED Promise!vars
    <2>1. PICK s \in todo[e] :
            /\ <<e, s>> \in Waiting
            /\ Waiting' = Waiting \ {<<e, s>>}
            /\ \/ queue' = queue
               \/ queue' = Append(queue, [event |-> e, sub |-> s, attempt |-> 0])
            /\ InHand' = InHand /\ Delayed' = Delayed
      BY <1>4, EnqueuePlaces
    <2>2. Queued' \subseteq Queued \cup {<<e, s>>}
      BY <2>1, EnqueueTask, AppendPlaces DEF Queued
    <2>3. Held' \subseteq Held
      BY <2>1, <2>2 DEF Held
    <2>4. QED BY <1>4, <1>a, <2>3 DEF Enqueue
  <1>5. CASE DeliveryGone \/ Deactivate \/ WorkerExits
    <2>1. InHand' \subseteq InHand /\ Waiting' = Waiting /\ Queued' = Queued
          /\ Delayed' = Delayed
      BY <1>5 DEF DeliveryGone, Deactivate, WorkerExits, InHand, Waiting, Queued, Delayed
    <2>2. Held' \subseteq Held
      BY <2>1 DEF Held
    <2>3. QED BY <1>5, <1>a, <2>2 DEF DeliveryGone, Deactivate, WorkerExits
  <1>6. CASE DeliveryFails
    <2>1. current \in Task /\ workerPc \in {"delivering", "aborted"}
          /\ workerPc' \in {"select", "deactivating"}
          /\ (retrying' = retrying \/ retrying' = retrying \cup RetriesAfter(current))
      BY <1>6, BusyHasTask DEF DeliveryFails
    <2>2. \A r \in retrying' : r \in retrying \/ Id(r) = Id(current)
      BY <2>1 DEF RetriesAfter, Retry, Id
    <2>3. Delayed' \subseteq Delayed \cup {Id(current)}
      BY <2>2 DEF Delayed, Id
    <2>4. InHand = {Id(current)} /\ InHand' = {} /\ Waiting' = Waiting /\ Queued' = Queued
      BY <1>6, <2>1 DEF DeliveryFails, InHand, Waiting, Queued
    <2>5. Held' \subseteq Held
      BY <2>3, <2>4 DEF Held
    <2>6. QED BY <1>6, <1>a, <2>5 DEF DeliveryFails
  <1>7. ASSUME NEW r \in retrying, RetryDue(r) \/ RetryQuits(r)
        PROVE  Promise!Next \/ UNCHANGED Promise!vars
    <2>1. \A q \in retrying' : q \in retrying \/ Id(q) = Id(r)
      BY <1>7 DEF RetryDue, RetryQuits, Id, TypeOK, RetryTask
    <2>2. Delayed' \subseteq Delayed
      BY <2>1 DEF Delayed, Id
    <2>3. Waiting' = Waiting /\ Queued' = Queued /\ InHand' = InHand
      BY <1>7 DEF RetryDue, RetryQuits, Waiting, Queued, InHand
    <2>4. Held' \subseteq Held
      BY <2>2, <2>3 DEF Held
    <2>5. QED BY <1>7, <1>a, <2>4 DEF RetryDue, RetryQuits
  <1>8. ASSUME NEW r \in retrying, RetrySends(r)
        PROVE  Promise!Next \/ UNCHANGED Promise!vars
    <2>1. Queued' = Queued \cup {Id(r)} /\ Id(r) \in Delayed
      BY <1>8, RetryTaskFacts, AppendPlaces DEF RetrySends
    <2>2. Delayed' \subseteq Delayed /\ Waiting' = Waiting /\ InHand' = InHand
      BY <1>8 DEF RetrySends, Delayed, Waiting, InHand
    <2>3. Held' \subseteq Held
      BY <2>1, <2>2 DEF Held
    <2>4. QED BY <1>8, <1>a, <2>3 DEF RetrySends
  <1>9. CASE Restart
    <2>1. 1..Len(queue') = {} /\ retrying' = {} /\ workerPc' = "select"
      BY <1>9, EmptyQueue DEF Restart
    <2>2. Held' = {}
      BY <1>9, <2>1 DEF Restart, Held, Waiting, Queued, InHand, Delayed, Deliveries
    <2>3. QED BY <1>9, <1>a, <2>2 DEF Restart
  <1>10. ASSUME UNCHANGED <<todo, queue, workerPc, current, retrying,
                            offered, delivered, tries>>
         PROVE  Promise!Next \/ UNCHANGED Promise!vars
    <2>1. Held' = Held
      BY <1>10 DEF Held, Waiting, Queued, InHand, Delayed, Id
    <2>2. QED BY <1>10, <1>a, <2>1
  <1>11. ASSUME NEW s \in Subs, CreateSubscription(s) \/ DeleteSubscription(s)
         PROVE  Promise!Next \/ UNCHANGED Promise!vars
    BY <1>11, <1>10 DEF CreateSubscription, DeleteSubscription
  <1>12. ASSUME NEW e \in Events, DispatchFails(e)
         PROVE  Promise!Next \/ UNCHANGED Promise!vars
    BY <1>12, <1>10 DEF DispatchFails
  <1>13. CASE Stop \/ StopReturns \/ CancelContext
    BY <1>13, <1>10 DEF Stop, StopReturns, CancelContext
  <1>14. CASE UNCHANGED vars
    BY <1>14, <1>10 DEF vars
  <1>15. QED
    BY <1>1, <1>2, <1>3, <1>4, <1>5, <1>6, <1>7, <1>8, <1>9, <1>11, <1>12,
       <1>13, <1>14 DEF Next, Worker, RetryGoroutine

\* The dispatcher keeps its promise about deliveries, restarts included.
THEOREM DispatcherKeepsPromise == Spec => KeepsPromise
  <1>1. QED
    BY PromiseInit, PromiseStep, TypeCorrect, PlacementHolds, PTL
       DEF Spec, KeepsPromise, Promise!Spec


-----------------------------------------------------------------------------
(* The subscription rows. *)

\* Why a deactivation is earned: the in-memory count never runs ahead of the
\* endpoint's own failures, unless the context is cancelled, and then the row
\* cannot be written.
Earned ==
  /\ \A s \in Subs : ~ctxDone => failures[s] <= streak[s]
  /\ workerPc = "deactivating" /\ ~ctxDone =>
       current.sub \in gone \/ streak[current.sub] >= MaxFailures

LEMMA EarnedStep == TypeOK /\ TypeOK' /\ Earned /\ [Next]_vars => Earned'
  <1> SUFFICES ASSUME TypeOK, TypeOK', Earned, [Next]_vars PROVE Earned'
    OBVIOUS
  <1> USE DEF service, worker, control, history
  <1>1. CASE DeliverySucceeds
    BY <1>1, BusyHasTask DEF DeliverySucceeds, Earned, TypeOK
  <1>2. CASE DeliveryGone
    BY <1>2 DEF DeliveryGone, Earned
  <1>3. CASE DeliveryFails
    <2> SUFFICES ASSUME ~ctxDone PROVE Earned'
      BY <1>3 DEF DeliveryFails, Earned
    <2>1. current.sub \in Subs
      BY <1>3, BusyHasTask DEF DeliveryFails
    <2>2. failures' = [failures EXCEPT ![current.sub] = @ + 1]
          /\ streak' = [streak EXCEPT ![current.sub] = @ + 1] /\ current' = current
      BY <1>3 DEF DeliveryFails
    <2>3. failures \in [Subs -> Nat] /\ streak \in [Subs -> Nat]
      BY DEF TypeOK
    <2>4. \A s \in Subs : failures'[s] <= streak'[s]
      BY <2>1, <2>2, <2>3 DEF Earned
    <2>5. workerPc' = "deactivating" => failures'[current.sub] >= MaxFailures
      BY <1>3 DEF DeliveryFails
    <2>6. failures'[current.sub] \in Nat /\ streak'[current.sub] \in Nat
      BY <2>1 DEF TypeOK
    <2>7. workerPc' = "deactivating" => streak'[current.sub] >= MaxFailures
      <3>1. failures'[current.sub] <= streak'[current.sub]
        BY <2>1, <2>4
      <3>2. ASSUME NEW f \in Nat, NEW k \in Nat, f <= k, f >= MaxFailures
            PROVE  k >= MaxFailures
        BY <3>2
      <3>3. QED BY <2>5, <2>6, <3>1, <3>2
    <2>8. QED BY <2>2, <2>4, <2>7 DEF Earned
  <1>4. CASE Take \/ Deactivate \/ WorkerExits
    BY <1>4 DEF Take, ExecuteDelivery, Deactivate, WorkerExits, Earned
  <1>5. CASE Restart
    BY <1>5 DEF Restart, Earned, TypeOK
  <1>6. CASE CancelContext
    BY <1>6 DEF CancelContext, Earned
  <1>7. ASSUME UNCHANGED <<workerPc, current, failures, ctxDone, streak, gone>>
        PROVE  Earned'
    BY <1>7 DEF Earned
  <1>8. ASSUME NEW s \in Subs, CreateSubscription(s) \/ DeleteSubscription(s)
        PROVE  Earned'
    BY <1>8, <1>7 DEF CreateSubscription, DeleteSubscription
  <1>9. ASSUME NEW e \in Events, DispatchFails(e) \/ DispatchLists(e) \/ Enqueue(e)
        PROVE  Earned'
    BY <1>9, <1>7 DEF DispatchFails, DispatchLists, Enqueue
  <1>10. ASSUME NEW r \in retrying, RetryGoroutine(r) PROVE Earned'
    BY <1>10, <1>7 DEF RetryGoroutine, RetryDue, RetrySends, RetryQuits
  <1>11. CASE Stop \/ StopReturns \/ UNCHANGED vars
    BY <1>11, <1>7 DEF Stop, StopReturns, vars
  <1>12. QED
    BY <1>1, <1>2, <1>3, <1>4, <1>5, <1>6, <1>8, <1>9, <1>10, <1>11
       DEF Next, Worker

\* What each step does to the rows.
LEMMA RowSteps ==
  ASSUME TypeOK, [Next]_vars
  PROVE  \/ row' = row
         \/ \E s \in Subs : row[s] = "absent" /\ row' = [row EXCEPT ![s] = "active"]
         \/ \E s \in Subs : row' = [row EXCEPT ![s] = "deleted"]
         \/ /\ workerPc = "deactivating" /\ ~ctxDone /\ current.sub \in Subs
            /\ UpdateRow(current.sub)
  <1> USE DEF service, worker, control, history
  <1>1. CASE Deactivate
    BY <1>1, BusyHasTask DEF Deactivate
  <1>2. ASSUME NEW s \in Subs, CreateSubscription(s) \/ DeleteSubscription(s)
        PROVE  \/ row[s] = "absent" /\ row' = [row EXCEPT ![s] = "active"]
               \/ row' = [row EXCEPT ![s] = "deleted"]
    BY <1>2 DEF CreateSubscription, DeleteSubscription
  <1>3. ASSUME ~Deactivate, ~\E s \in Subs : CreateSubscription(s) \/ DeleteSubscription(s)
        PROVE  row' = row
    BY <1>3 DEF Next, Worker, RetryGoroutine, DispatchFails, DispatchLists, Enqueue,
       Take, DeliverySucceeds, DeliveryGone, DeliveryFails, WorkerExits, RetryDue,
       RetrySends, RetryQuits, Stop, StopReturns, CancelContext, Restart, vars
  <1>4. QED BY <1>1, <1>2, <1>3

\* No subscription is deactivated that its endpoint has not earned: neither a
\* stale count nor a request cancelled by a shutdown is enough.
THEOREM DeactivationIsEarned == Spec => DeactivationEarned
  <1>1. Init => Earned
    BY DEF Init, Earned
  <1>2. TypeOK /\ Earned /\ [Next]_vars =>
          [\A s \in Subs : (row[s] = "active" /\ row'[s] = "inactive") =>
             (s \in gone \/ streak[s] >= MaxFailures)]_vars
    <2> SUFFICES ASSUME TypeOK, Earned, [Next]_vars, NEW s \in Subs,
                        row[s] = "active", row'[s] = "inactive"
                 PROVE  s \in gone \/ streak[s] >= MaxFailures
      OBVIOUS
    <2>1. /\ workerPc = "deactivating" /\ ~ctxDone /\ current.sub \in Subs
          /\ UpdateRow(current.sub)
      BY RowSteps DEF TypeOK
    <2>2. s = current.sub
      BY <2>1 DEF UpdateRow, TypeOK
    <2>3. QED BY <2>1, <2>2 DEF Earned
  <1>3. QED
    BY <1>1, <1>2, EarnedStep, TypeCorrect, PTL DEF Spec, DeactivationEarned

\* The whole-row write from a stale snapshot resurrects and reactivates nothing.
THEOREM RowsDecay == Spec => RowsOnlyDecay
  <1>1. TypeOK /\ [Next]_vars =>
          [\A s \in Subs :
             /\ row[s] = "deleted" => row'[s] = "deleted"
             /\ row[s] = "inactive" => row'[s] # "active"]_vars
    <2> SUFFICES ASSUME TypeOK, [Next]_vars, NEW s \in Subs
                 PROVE  /\ row[s] = "deleted" => row'[s] = "deleted"
                        /\ row[s] = "inactive" => row'[s] # "active"
      OBVIOUS
    <2>1. CASE row' = row
      BY <2>1
    <2>2. ASSUME NEW r \in Subs, row[r] = "absent", row' = [row EXCEPT ![r] = "active"]
          PROVE  /\ row[s] = "deleted" => row'[s] = "deleted"
                 /\ row[s] = "inactive" => row'[s] # "active"
      BY <2>2 DEF TypeOK
    <2>3. ASSUME NEW r \in Subs, row' = [row EXCEPT ![r] = "deleted"]
          PROVE  /\ row[s] = "deleted" => row'[s] = "deleted"
                 /\ row[s] = "inactive" => row'[s] # "active"
      BY <2>3 DEF TypeOK
    <2>4. CASE current.sub \in Subs /\ UpdateRow(current.sub)
      BY <2>4 DEF UpdateRow, TypeOK
    <2>5. QED BY <2>1, <2>2, <2>3, <2>4, RowSteps
  <1>2. QED BY <1>1, TypeCorrect, PTL DEF Spec, RowsOnlyDecay

-----------------------------------------------------------------------------
(* After Stop. *)

StoppedWorker == stopPc = "returned" => workerPc = "exited"

LEMMA StoppedWorkerStep == StoppedWorker /\ [Next]_vars => StoppedWorker'
  <1> USE DEF service, worker, control, history, StoppedWorker
  <1>1. CASE Take \/ DeliverySucceeds \/ DeliveryGone \/ DeliveryFails \/ Deactivate
    BY <1>1 DEF Take, ExecuteDelivery, DeliverySucceeds, DeliveryGone, DeliveryFails, Deactivate
  <1>2. CASE WorkerExits
    BY <1>2 DEF WorkerExits
  <1>3. CASE Stop \/ StopReturns \/ CancelContext \/ Restart
    BY <1>3 DEF Stop, StopReturns, CancelContext, Restart
  <1>4. ASSUME StoppedWorker, UNCHANGED <<stopPc, workerPc>> PROVE StoppedWorker'
    BY <1>4
  <1>5. ASSUME NEW s \in Subs, CreateSubscription(s) \/ DeleteSubscription(s)
        PROVE  UNCHANGED <<stopPc, workerPc>>
    BY <1>5 DEF CreateSubscription, DeleteSubscription
  <1>6. ASSUME NEW e \in Events, DispatchFails(e) \/ DispatchLists(e) \/ Enqueue(e)
        PROVE  UNCHANGED <<stopPc, workerPc>>
    BY <1>6 DEF DispatchFails, DispatchLists, Enqueue
  <1>7. ASSUME NEW r \in retrying, RetryGoroutine(r) PROVE UNCHANGED <<stopPc, workerPc>>
    BY <1>7 DEF RetryGoroutine, RetryDue, RetrySends, RetryQuits
  <1>8. CASE UNCHANGED vars
    BY <1>8 DEF vars
  <1>9. QED
    BY <1>1, <1>2, <1>3, <1>4, <1>5, <1>6, <1>7, <1>8 DEF Next, Worker

\* When Stop has returned the worker has exited, so nothing more is sent and
\* no row is deactivated.
THEOREM StopIsQuiet == Spec => QuietAfterStop
  <1>1. Init => StoppedWorker
    BY DEF Init, StoppedWorker
  <1>2. TypeOK /\ StoppedWorker /\ [Next]_vars =>
          [(stopPc = "returned" /\ stopPc' = "returned") =>
             (UNCHANGED tries /\ \A s \in Subs : row[s] = "active" => row'[s] # "inactive")]_vars
    <2> SUFFICES ASSUME TypeOK, workerPc = "exited", [Next]_vars
                 PROVE  UNCHANGED tries /\
                        \A s \in Subs : row[s] = "active" => row'[s] # "inactive"
      BY DEF StoppedWorker
    <2>1. UNCHANGED tries
      BY DEF Next, Worker, RetryGoroutine, CreateSubscription, DeleteSubscription,
         DispatchFails, DispatchLists, Enqueue,
         Take, DeliverySucceeds, DeliveryGone, DeliveryFails, Deactivate, WorkerExits,
         RetryDue, RetrySends, RetryQuits, Stop, StopReturns, CancelContext, Restart,
         vars, history
    <2>2. \A s \in Subs : row[s] = "active" => row'[s] # "inactive"
      BY RowSteps DEF TypeOK
    <2>3. QED BY <2>1, <2>2
  <1>3. QED
    BY <1>1, <1>2, StoppedWorkerStep, TypeCorrect, PTL DEF Spec, QuietAfterStop
=============================================================================
