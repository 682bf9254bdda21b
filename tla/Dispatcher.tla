----------------------------- MODULE Dispatcher -----------------------------
(***************************************************************************)
(* The outbound webhook dispatcher (internal/webhook/dispatcher.go): the   *)
(* handlers that call Dispatch, the bounded in-memory queue, the single    *)
(* worker goroutine, one goroutine per scheduled retry, Stop and the       *)
(* cancellation of the worker's context, together with the subscription    *)
(* rows the worker deactivates.  A restart of the process loses all of it  *)
(* but the rows.  The subscriber's endpoint is external: an attempt may    *)
(* succeed, answer 410 Gone, or fail in any other way.                     *)
(***************************************************************************)
EXTENDS Integers, Sequences, FiniteSets

CONSTANTS
  Events,        \* the Dispatch calls, one per domain event
  Subs,          \* subscriptions, numbered in order of creation
  Subscribed,    \* event -> the subscriptions that name its topic
  QueueCap,      \* capacity of the queue channel
  Retries,       \* len(RetryDelays)
  MaxFailures,   \* MaxConsecutiveFailures
  MaxRestarts    \* bound on process restarts

ASSUME SubsAssumption == Subs \subseteq Nat
ASSUME SubscribedAssumption == Subscribed \in [Events -> SUBSET Subs]
ASSUME QueueCapAssumption == QueueCap \in Nat \ {0}
ASSUME RetriesAssumption == Retries \in Nat
ASSUME MaxFailuresAssumption == MaxFailures \in Nat \ {0}
ASSUME MaxRestartsAssumption == MaxRestarts \in Nat

VARIABLES
  row,         \* sub -> "absent" | "active" | "inactive" | "deleted"
  call,        \* event -> where its Dispatch call is
  todo,        \* event -> subscriptions the call has still to enqueue
  queue,       \* the queue channel
  workerPc,    \* "select" | "delivering" | "aborted" | "deactivating" | "exited"
  current,     \* the task the worker holds; stale in "select" and "exited"
  retrying,    \* the retry goroutines
  failures,    \* sub -> consecutive failures counted in this process
  stopClosed,  \* stopCh is closed
  ctxDone,     \* the worker's context is cancelled
  stopPc,      \* "none" | "waiting" | "returned": the first caller of Stop
  restarts,
  \* history variables, read by the properties only
  offered,     \* deliveries some Dispatch call has addressed
  delivered,   \* deliveries answered with 2xx
  tries,       \* delivery -> times the worker took it up
  streak,      \* sub -> failed answers since its last 2xx, restarts included
  gone         \* subs that have answered 410

service == <<call, todo>>
worker  == <<workerPc, current, failures>>
control == <<stopClosed, ctxDone, stopPc, restarts>>
history == <<offered, delivered, tries, streak, gone>>
vars == <<row, service, queue, worker, retrying, control, history>>

Deliveries == Events \X Subs
Task == [event : Events, sub : Subs, attempt : 0..Retries]
RetryTask == [event : Events, sub : Subs, attempt : 0..Retries, due : BOOLEAN]

Id(t) == <<t.event, t.sub>>

TypeOK ==
  /\ row \in [Subs -> {"absent", "active", "inactive", "deleted"}]
  /\ call \in [Events -> {"idle", "enqueueing", "returned"}]
  /\ todo \in [Events -> SUBSET Subs]
  /\ queue \in Seq(Task) /\ Len(queue) <= QueueCap
  /\ workerPc \in {"select", "delivering", "aborted", "deactivating", "exited"}
  /\ workerPc \in {"delivering", "aborted", "deactivating"} => current \in Task
  /\ retrying \subseteq RetryTask
  /\ failures \in [Subs -> Nat]
  /\ stopClosed \in BOOLEAN /\ ctxDone \in BOOLEAN
  /\ stopPc \in {"none", "waiting", "returned"}
  /\ restarts \in 0..MaxRestarts
  /\ offered \subseteq Deliveries /\ delivered \subseteq Deliveries
  /\ tries \in [Deliveries -> Nat]
  /\ streak \in [Subs -> Nat]
  /\ gone \subseteq Subs

\* current has no meaning until a task is taken.
NoTask == [event |-> "none"]

\* NewDispatcher and Start: an empty queue, no counts, the worker in its loop.
Init ==
  /\ queue = <<>>
  /\ workerPc = "select" /\ current = NoTask
  /\ retrying = {}
  /\ failures = [s \in Subs |-> 0]
  /\ stopClosed = FALSE /\ ctxDone = FALSE /\ stopPc = "none"
  /\ row = [s \in Subs |-> "absent"]
  /\ call = [e \in Events |-> "idle"]
  /\ todo = [e \in Events |-> {}]
  /\ restarts = 0
  /\ offered = {} /\ delivered = {} /\ gone = {}
  /\ tries = [d \in Deliveries |-> 0]
  /\ streak = [s \in Subs |-> 0]

-----------------------------------------------------------------------------
(* The subscription rows, changed by the admin API. *)

CreateSubscription(s) ==
  /\ row[s] = "absent"
  /\ \A r \in Subs : r < s => row[r] # "absent"
  /\ row' = [row EXCEPT ![s] = "active"]
  /\ UNCHANGED <<service, queue, worker, retrying, control, history>>

DeleteSubscription(s) ==
  /\ row[s] \in {"active", "inactive"}
  /\ row' = [row EXCEPT ![s] = "deleted"]
  /\ UNCHANGED <<service, queue, worker, retrying, control, history>>

-----------------------------------------------------------------------------
(* Dispatch, called from a request handler after its own write committed. *)

ListActiveByEvent(e) == {s \in Subscribed[e] : row[s] = "active"}

\* The query fails, and the callers ignore the error: the event is lost ...
DispatchFails(e) ==
  /\ call[e] = "idle"
  /\ call' = [call EXCEPT ![e] = "returned"]
  /\ UNCHANGED <<row, todo, queue, worker, retrying, control, history>>

\* ... or it returns a snapshot of the matching rows.
DispatchLists(e) ==
  LET subs == ListActiveByEvent(e) IN
  /\ call[e] = "idle"
  /\ call' = [call EXCEPT ![e] = IF subs = {} THEN "returned" ELSE "enqueueing"]
  /\ todo' = [todo EXCEPT ![e] = subs]
  /\ offered' = offered \cup ({e} \X subs)
  /\ UNCHANGED <<row, queue, worker, retrying, control,
                 delivered, tries, streak, gone>>

\* The rows come newest first; each gets one non-blocking send.
SendOrDrop(t) ==
  queue' = IF Len(queue) < QueueCap THEN Append(queue, t) ELSE queue

Enqueue(e) ==
  /\ call[e] = "enqueueing"
  /\ \E s \in todo[e] :
       /\ \A r \in todo[e] : r <= s
       /\ SendOrDrop([event |-> e, sub |-> s, attempt |-> 0])
       /\ todo' = [todo EXCEPT ![e] = @ \ {s}]
       /\ call' = [call EXCEPT ![e] =
                     IF todo[e] = {s} THEN "returned" ELSE "enqueueing"]
  /\ UNCHANGED <<row, worker, retrying, control, history>>

-----------------------------------------------------------------------------
(* The worker.  Its select picks any ready case, so a closed stopCh does   *)
(* not prevent it from taking one more task.                               *)

\* executeDelivery: under a cancelled context the client fails without sending.
ExecuteDelivery == IF ctxDone THEN "aborted" ELSE "delivering"

Take ==
  /\ workerPc = "select"
  /\ queue # <<>>
  /\ current' = Head(queue)
  /\ queue' = Tail(queue)
  /\ workerPc' = ExecuteDelivery
  /\ tries' = [tries EXCEPT ![Id(Head(queue))] = @ + 1]
  /\ UNCHANGED <<row, service, retrying, failures, control,
                 offered, delivered, streak, gone>>

\* Mutant: the count of failures survives a success.
DeliverySucceedsNoReset ==
  /\ workerPc = "delivering"
  /\ workerPc' = "select"
  /\ delivered' = delivered \cup {Id(current)}
  /\ streak' = [streak EXCEPT ![current.sub] = 0]
  /\ UNCHANGED <<row, service, queue, current, failures, retrying, control,
                 offered, tries, gone>>

\* processTask, 2xx: the count of consecutive failures starts again.
DeliverySucceeds ==
  /\ workerPc = "delivering"
  /\ workerPc' = "select"
  /\ failures' = [failures EXCEPT ![current.sub] = 0]
  /\ delivered' = delivered \cup {Id(current)}
  /\ streak' = [streak EXCEPT ![current.sub] = 0]
  /\ UNCHANGED <<row, service, queue, current, retrying, control,
                 offered, tries, gone>>

\* processTask, 410: deactivate; the failure is not counted, nothing retried.
DeliveryGone ==
  /\ workerPc = "delivering"
  /\ workerPc' = "deactivating"
  /\ gone' = gone \cup {current.sub}
  /\ UNCHANGED <<row, service, queue, current, failures, retrying, control,
                 offered, delivered, tries, streak>>

Retry(t) == [event |-> t.event, sub |-> t.sub, attempt |-> t.attempt + 1,
             due |-> FALSE]

\* Mutant: one retry too many.
RetriesOffByOne(t) == IF t.attempt <= Retries THEN {Retry(t)} ELSE {}

\* The goroutine processTask leaves behind, when retries remain.
RetriesAfter(t) == IF t.attempt < Retries THEN {Retry(t)} ELSE {}

\* processTask, anything else, the worker's own cancelled request included:
\* count the failure, then deactivate or schedule the next attempt.
DeliveryFails ==
  LET s == current.sub IN
  /\ workerPc \in {"delivering", "aborted"}
  /\ failures' = [failures EXCEPT ![s] = @ + 1]
  /\ IF failures'[s] >= MaxFailures
     THEN workerPc' = "deactivating" /\ UNCHANGED retrying
     ELSE workerPc' = "select" /\ retrying' = retrying \cup RetriesAfter(current)
  /\ streak' = [streak EXCEPT ![s] = IF ctxDone THEN @ ELSE @ + 1]
  /\ UNCHANGED <<row, service, queue, current, control,
                 offered, delivered, tries, gone>>

\* Mutant: an upsert where the code updates.
UpsertRow(s) == row' = [row EXCEPT ![s] = "inactive"]

\* The whole row is written from the snapshot Dispatch took, is_active false.
UpdateRow(s) ==
  row' = [row EXCEPT ![s] = IF @ = "deleted" THEN "deleted" ELSE "inactive"]

\* deactivateSubscription: the update may fail, and does when the context is
\* cancelled; the error is logged and nothing more is done about it.
Deactivate ==
  /\ workerPc = "deactivating"
  /\ \/ ~ctxDone /\ UpdateRow(current.sub)
     \/ UNCHANGED row
  /\ workerPc' = "select"
  /\ UNCHANGED <<service, queue, current, failures, retrying, control, history>>

\* Mutant: the loop ends when it finds the queue empty.
WorkerExitsWhenIdle ==
  /\ workerPc = "select"
  /\ stopClosed \/ ctxDone \/ queue = <<>>
  /\ workerPc' = "exited"
  /\ UNCHANGED <<row, service, queue, current, failures, retrying, control, history>>

\* Mutant: the select has no stopCh case.
WorkerExitsOnContextOnly ==
  /\ workerPc = "select"
  /\ ctxDone
  /\ workerPc' = "exited"
  /\ UNCHANGED <<row, service, queue, current, failures, retrying, control, history>>

WorkerExits ==
  /\ workerPc = "select"
  /\ stopClosed \/ ctxDone
  /\ workerPc' = "exited"
  /\ UNCHANGED <<row, service, queue, current, failures, retrying, control, history>>

-----------------------------------------------------------------------------
(* The retry goroutines: wait for the delay, then a blocking send. *)

RetryDue(r) ==
  /\ r \in retrying /\ ~r.due
  /\ retrying' = (retrying \ {r}) \cup {[r EXCEPT !.due = TRUE]}
  /\ UNCHANGED <<row, service, queue, worker, control, history>>

\* Mutant: a ticker where the code has a one-shot timer.
RetrySendsAgain(r) ==
  /\ r \in retrying /\ r.due
  /\ Len(queue) < QueueCap
  /\ queue' = Append(queue,
                [event |-> r.event, sub |-> r.sub, attempt |-> r.attempt])
  /\ UNCHANGED <<row, service, worker, retrying, control, history>>

RetrySends(r) ==
  /\ r \in retrying /\ r.due
  /\ Len(queue) < QueueCap
  /\ queue' = Append(queue,
                [event |-> r.event, sub |-> r.sub, attempt |-> r.attempt])
  /\ retrying' = retrying \ {r}
  /\ UNCHANGED <<row, service, worker, control, history>>

\* Mutant: the goroutine does not watch stopCh.
RetryQuitsOnContextOnly(r) ==
  /\ r \in retrying
  /\ ctxDone
  /\ retrying' = retrying \ {r}
  /\ UNCHANGED <<row, service, queue, worker, control, history>>

RetryQuits(r) ==
  /\ r \in retrying
  /\ stopClosed \/ ctxDone
  /\ retrying' = retrying \ {r}
  /\ UNCHANGED <<row, service, queue, worker, control, history>>

-----------------------------------------------------------------------------
(* Stop, the cancellation of the context, and a restart of the process. *)

\* Only the caller that closes stopCh waits; a later caller returns at once.
Stop ==
  /\ ~stopClosed
  /\ stopClosed' = TRUE
  /\ stopPc' = "waiting"
  /\ UNCHANGED <<row, service, queue, worker, retrying, ctxDone, restarts, history>>

\* Mutant: Stop does not wait for the worker.
StopReturnsAtOnce ==
  /\ stopPc = "waiting"
  /\ stopPc' = "returned"
  /\ UNCHANGED <<row, service, queue, worker, retrying, stopClosed, ctxDone,
                 restarts, history>>

\* The wait group holds the worker and no retry goroutine.
StopReturns ==
  /\ stopPc = "waiting"
  /\ workerPc = "exited"
  /\ stopPc' = "returned"
  /\ UNCHANGED <<row, service, queue, worker, retrying, stopClosed, ctxDone,
                 restarts, history>>

CancelContext ==
  /\ ~ctxDone
  /\ ctxDone' = TRUE
  /\ UNCHANGED <<row, service, queue, worker, retrying, stopClosed, stopPc,
                 restarts, history>>

\* The process ends, whatever it was doing, and the next one starts afresh;
\* the calls in progress die with their handlers.
Restart ==
  /\ restarts < MaxRestarts
  /\ restarts' = restarts + 1
  /\ queue' = <<>>
  /\ workerPc' = "select" /\ current' = NoTask
  /\ retrying' = {}
  /\ failures' = [s \in Subs |-> 0]
  /\ stopClosed' = FALSE /\ ctxDone' = FALSE /\ stopPc' = "none"
  /\ call' = [e \in Events |-> IF call[e] = "enqueueing" THEN "returned" ELSE call[e]]
  /\ todo' = [e \in Events |-> {}]
  /\ UNCHANGED <<row, history>>

-----------------------------------------------------------------------------
Worker ==
  \/ Take \/ DeliverySucceeds \/ DeliveryGone \/ DeliveryFails
  \/ Deactivate \/ WorkerExits

RetryGoroutine(r) == RetryDue(r) \/ RetrySends(r) \/ RetryQuits(r)

Next ==
  \/ \E s \in Subs : CreateSubscription(s) \/ DeleteSubscription(s)
  \/ \E e \in Events : DispatchFails(e) \/ DispatchLists(e) \/ Enqueue(e)
  \/ Worker
  \/ \E r \in retrying : RetryGoroutine(r)
  \/ Stop \/ StopReturns \/ CancelContext \/ Restart

Spec == Init /\ [][Next]_vars

\* A goroutine that can run does run: an HTTP request ends (10 s timeout), a
\* delay elapses, a query returns.  Nothing obliges anyone to dispatch, to
\* cancel, to stop or to restart, and no outcome of an attempt is favoured.
Fairness ==
  /\ \A e \in Events : WF_vars(Enqueue(e))
  /\ WF_vars(Worker)
  /\ \A d \in Deliveries :
       WF_vars(\E r \in retrying : Id(r) = d /\ RetryGoroutine(r))
  /\ WF_vars(StopReturns)

FairSpec == Spec /\ Fairness

-----------------------------------------------------------------------------
(* Where a delivery can be while the process still has it. *)

Waiting == {d \in Deliveries : d[2] \in todo[d[1]]}
Queued  == {Id(queue[i]) : i \in 1..Len(queue)}
InHand  == IF workerPc \in {"delivering", "aborted"} THEN {Id(current)} ELSE {}
Delayed == {Id(r) : r \in retrying}
Held    == Waiting \cup Queued \cup InHand \cup Delayed

(* Safety *)

\* A delivery is in one place at most: a retry goroutine, the worker, the
\* queue and the Dispatch call hand it over and never keep a copy, so an
\* endpoint is never sent the same attempt twice by two of them.
OneCopy ==
  /\ \A i, j \in 1..Len(queue) : Id(queue[i]) = Id(queue[j]) => i = j
  /\ \A q, r \in retrying : Id(q) = Id(r) => q = r
  /\ Waiting \cap (Queued \cup InHand \cup Delayed) = {}
  /\ Queued \cap (InHand \cup Delayed) = {}
  /\ InHand \cap Delayed = {}

\* The attempt number a task carries is the number of attempts already made
\* for it, wherever the task is; with TypeOK this bounds the attempts of a
\* delivery by len(RetryDelays) + 1.
AttemptsCounted ==
  /\ \A d \in Waiting : tries[d] = 0
  /\ \A i \in 1..Len(queue) : tries[Id(queue[i])] = queue[i].attempt
  /\ \A r \in retrying : tries[Id(r)] = r.attempt
  /\ workerPc \in {"delivering", "aborted"} =>
       tries[Id(current)] = current.attempt + 1

\* A subscription is switched off only after its endpoint has answered 410,
\* or has failed MaxFailures times running with no success in between.  The
\* failures a shutdown causes by cancelling requests never cost a subscriber
\* its subscription, although processTask counts them too.
DeactivationEarned ==
  [][\A s \in Subs :
       (row[s] = "active" /\ row'[s] = "inactive") =>
         (s \in gone \/ streak[s] >= MaxFailures)]_vars

\* The whole-row write of a stale snapshot never brings a row back: a deleted
\* subscription stays deleted, and nothing reactivates an inactive one.
RowsOnlyDecay ==
  [][\A s \in Subs :
       /\ row[s] = "deleted" => row'[s] = "deleted"
       /\ row[s] = "inactive" => row'[s] # "active"]_vars

\* Once Stop has returned the worker starts no delivery and touches no
\* subscription row, whatever is left in the queue or sleeping in a retry.
QuietAfterStop ==
  [][(stopPc = "returned" /\ stopPc' = "returned") =>
       (UNCHANGED tries /\ \A s \in Subs : row[s] = "active" => row'[s] # "inactive")]_vars

(* Refinement *)

\* Delivered, still held, given up, or not yet addressed.
Fate ==
  LET held == Held IN
  [d \in Deliveries |->
    CASE d \in delivered -> "delivered"
      [] d \in held \ delivered -> "live"
      [] d \in offered \ (delivered \cup held) -> "lost"
      [] OTHER -> "unsent"]

Promise == INSTANCE WebhookDelivery WITH
  MaxAttempts <- Retries + 1,
  fate <- Fate

\* Every step of the dispatcher is a step of the promise: a delivery is
\* offered once, attempted at most len(RetryDelays) + 1 times, and never
\* attempted again after it was delivered or given up.
KeepsPromise == Promise!Spec

(* Liveness *)

\* While the worker is neither stopped nor cancelled, a delivery the process
\* holds is eventually delivered or given up: no task stays for ever in the
\* queue or in a retry goroutine blocked on a full queue.
HeldIsResolved ==
  \A d \in Deliveries : d \in Held ~> (d \notin Held \/ stopClosed \/ ctxDone)

\* Stop returns, however many tasks are queued and whatever the worker and
\* the retry goroutines are doing when it is called.
StopTerminates == stopPc = "waiting" ~> stopPc # "waiting"

\* After the channel is closed no retry goroutine is left behind, although
\* Stop does not wait for them (a restart counts as the end of the process).
RetriesDrain == stopClosed ~> (retrying = {} \/ ~stopClosed)

(* What the documents say and the code does not do *)
=============================================================================
