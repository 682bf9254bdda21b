---------------------------- MODULE ServerProofs ----------------------------
(* Proofs about Server, for any clients and any size of the pool. *)
EXTENDS Server, TLAPS

\* What the order of shutdown rests on: Shutdown has returned only when no
\* connection is left or the grace period is over, and each deferred call has
\* found the one before it done.
ShutdownOrder ==
  /\ shutter \in {"drained", "done"} =>
       deadline = "passed" \/ \A c \in Clients : conn[c] = "none"
  /\ main \in {"stopping", "closing", "returned"} => shutter = "done"
  /\ main \in {"closing", "returned"} => worker = "exited"
  /\ pool = "closed" => main = "returned"
  /\ exit = "zero" => main = "returned"

\* Behind a start-up that has migrated the schema it is current, or a migrate down
\* was begun since; the lock keeps commands out while start-up applies a migration.
\* Connections exist only behind such a start-up.
Served ==
  /\ alive /\ main \notin {"connecting", "migrating", "applying"}
       => schema = "current" \/ undone = "yes"
  /\ alive /\ main = "applying" => command = "none"
  /\ command # "none" => schema = "dirty"
  /\ alive /\ (\E c \in Clients : conn[c] # "none")
       => main \notin {"connecting", "migrating", "applying", "opening"}

IInv == TypeOK /\ ShutdownOrder /\ Served

USE DEF alive, Accepting, ctxDone, stopClosed, MainStates, ConnStates, database

-----------------------------------------------------------------------------
(* Each group of actions keeps the invariant. *)

LEMMA InitEstablishes == Init => IInv
  BY DEF Init, IInv, TypeOK, ShutdownOrder, Served

LEMMA StartUpKeeps == IInv /\ StartUp => IInv'
  <1> SUFFICES ASSUME IInv, StartUp PROVE IInv'
    OBVIOUS
  <1> USE DEF IInv, TypeOK, ShutdownOrder, Served
  <1>1. CASE Connect BY <1>1 DEF Connect
  <1>2. CASE MigrateUp
    <2>1. /\ exit = "none" /\ main = "migrating" /\ command = "none"
          /\ migrator' = "held" /\ undone' = "no"
          /\ UNCHANGED <<signalled, shutter, deadline, conn, touch, worker, pool, command>>
      BY <1>2 DEF MigrateUp
    <2>2. \/ schema = "old" /\ schema' = "dirty" /\ main' = "applying" /\ exit' = exit
          \/ schema = "current" /\ schema' = schema /\ main' = "opening" /\ exit' = exit
          \/ schema = "dirty" /\ schema' = schema /\ main' = main /\ exit' = "one"
      BY <1>2 DEF MigrateUp
    <2>3. TypeOK'
      BY <2>1, <2>2
    <2>4. ShutdownOrder'
      BY <2>1, <2>2
    <2>5. Served'
      BY <2>1, <2>2
    <2> QED BY <2>3, <2>4, <2>5
  <1>3. CASE Migrated BY <1>3 DEF Migrated
  <1>4. CASE StartUpFails BY <1>4 DEF StartUpFails
  <1>5. CASE Listen BY <1>5 DEF Listen
  <1>6. CASE ListenFails BY <1>6 DEF ListenFails
  <1> QED BY <1>1, <1>2, <1>3, <1>4, <1>5, <1>6 DEF StartUp

LEMMA RequestKeeps ==
  ASSUME NEW c \in Clients, IInv, Request(c) PROVE IInv'
  <1> USE DEF IInv, TypeOK, ShutdownOrder, Served, SetConn
  <1>1. CASE Accept(c) BY <1>1 DEF Accept
  <1>2. CASE Receive(c) BY <1>2 DEF Receive
  <1>3. CASE Disconnect(c) BY <1>3 DEF Disconnect
  <1>4. CASE Ask(c) BY <1>4 DEF Ask
  <1>5. CASE Acquire(c) BY <1>5 DEF Acquire
  <1>6. CASE GiveUp(c) BY <1>6 DEF GiveUp
  <1>7. CASE Release(c) BY <1>7 DEF Release
  <1>8. CASE Answer(c) BY <1>8 DEF Answer
  <1>9. CASE TouchAcquires(c) BY <1>9 DEF TouchAcquires
  <1>10. CASE TouchEnds(c) BY <1>10 DEF TouchEnds
  <1> QED
    BY <1>1, <1>2, <1>3, <1>4, <1>5, <1>6, <1>7, <1>8, <1>9, <1>10 DEF Request

LEMMA WorkerKeeps == IInv /\ Worker => IInv'
  <1> SUFFICES ASSUME IInv, Worker PROVE IInv'
    OBVIOUS
  <1> USE DEF IInv, TypeOK, ShutdownOrder, Served, SetWorker
  <1>1. CASE WorkerTakes BY <1>1 DEF WorkerTakes
  <1>2. CASE WorkerDelivered BY <1>2 DEF WorkerDelivered
  <1>3. CASE WorkerDeactivates BY <1>3 DEF WorkerDeactivates
  <1>4. CASE WorkerAcquires BY <1>4 DEF WorkerAcquires
  <1>5. CASE WorkerGivesUp BY <1>5 DEF WorkerGivesUp
  <1>6. CASE WorkerUpdated BY <1>6 DEF WorkerUpdated
  <1>7. CASE WorkerExits BY <1>7 DEF WorkerExits
  <1> QED BY <1>1, <1>2, <1>3, <1>4, <1>5, <1>6, <1>7 DEF Worker

LEMMA ShutdownKeeps ==
  IInv /\ (Signal \/ SignalGoroutine \/ DeadlinePasses \/ Watchdog) => IInv'
  <1> SUFFICES ASSUME IInv, Signal \/ SignalGoroutine \/ DeadlinePasses \/ Watchdog
               PROVE IInv'
    OBVIOUS
  <1> USE DEF IInv, TypeOK, ShutdownOrder, Served
  <1>1. CASE Signal BY <1>1 DEF Signal
  <1>2. CASE BeginShutdown BY <1>2 DEF BeginShutdown
  <1>3. CASE ShutdownReturns BY <1>3 DEF ShutdownReturns
  <1>4. CASE CancelContext BY <1>4 DEF CancelContext
  <1>5. CASE DeadlinePasses BY <1>5 DEF DeadlinePasses
  <1>6. CASE Watchdog BY <1>6 DEF Watchdog
  <1> QED BY <1>1, <1>2, <1>3, <1>4, <1>5, <1>6 DEF SignalGoroutine

LEMMA MainStopsKeeps == IInv /\ MainStops => IInv'
  <1> SUFFICES ASSUME IInv, MainStops PROVE IInv'
    OBVIOUS
  <1> USE DEF IInv, TypeOK, ShutdownOrder, Served
  <1>1. CASE ServeReturns BY <1>1 DEF ServeReturns
  <1>2. CASE StopDispatcher BY <1>2 DEF StopDispatcher
  <1>3. CASE StopReturns BY <1>3 DEF StopReturns
  <1>4. CASE ClosePool BY <1>4 DEF ClosePool
  <1>5. CASE Exit BY <1>5 DEF Exit
  <1> QED BY <1>1, <1>2, <1>3, <1>4, <1>5 DEF MainStops

LEMMA OutsideKeeps == IInv /\ (Kill \/ Restart \/ MigrateCommand) => IInv'
  <1> SUFFICES ASSUME IInv, Kill \/ Restart \/ MigrateCommand PROVE IInv'
    OBVIOUS
  <1> USE DEF IInv, TypeOK, ShutdownOrder, Served
  <1>1. CASE Kill BY <1>1 DEF Kill
  <1>2. CASE Restart BY <1>2 DEF Restart
  <1>3. CASE CommandBegins BY <1>3 DEF CommandBegins, server
  <1>4. CASE CommandEnds BY <1>4 DEF CommandEnds, server
  <1>5. CASE CommandFails BY <1>5 DEF CommandFails, server
  <1> QED BY <1>1, <1>2, <1>3, <1>4, <1>5 DEF MigrateCommand

LEMMA StutterKeeps == IInv /\ UNCHANGED vars => IInv'
  BY DEF IInv, TypeOK, ShutdownOrder, Served, vars

LEMMA Inductive == Spec => []IInv
  <1>1. IInv /\ [Next]_vars => IInv'
    <2> SUFFICES ASSUME IInv, [Next]_vars PROVE IInv'
      OBVIOUS
    <2> QED
      BY StartUpKeeps, RequestKeeps, WorkerKeeps, ShutdownKeeps, MainStopsKeeps,
         OutsideKeeps, StutterKeeps DEF Next
  <1> QED BY InitEstablishes, <1>1, PTL DEF Spec

-----------------------------------------------------------------------------
(* The theorems *)

\* The state of the process is well typed, and a shutdown always has its deadline.
THEOREM ServerTyped == Spec => []TypeOK
  <1>1. IInv => TypeOK
    BY DEF IInv
  <1> QED BY Inductive, <1>1, PTL

\* Close comes after the last request and after the worker, for any number of
\* clients, unless the grace period of runServer is over.
THEOREM PoolClosesLast == Spec => []PoolOutlivesItsUsers
  <1>1. IInv => PoolOutlivesItsUsers
    BY DEF IInv, ShutdownOrder, PoolOutlivesItsUsers, InFlight
  <1> QED BY Inductive, <1>1, PTL

\* No request is served on an old or half-applied schema, through any sequence
\* of kills, restarts and interrupted migrations, unless an operator has begun a
\* migrate down beside the serving process.
THEOREM SchemaIsCurrent == Spec => []ServesCurrentSchema
  <1>1. IInv => ServesCurrentSchema
    BY DEF IInv, Served, ServesCurrentSchema
  <1> QED BY Inductive, <1>1, PTL

\* Neither the watchdog nor the return of main cuts a request off before the
\* grace period is over.
THEOREM GraceIsGiven == Spec => OnlyLateRequestsAreCut
  <1> DEFINE Cut == (alive /\ exit' \in {"zero", "one"} /\ shutter # "waiting"
                       /\ \E c \in Clients : InFlight(c)) => deadline = "passed"
  <1>1. IInv /\ [Next]_vars => [Cut]_vars
    <2> SUFFICES ASSUME IInv, Next, alive, exit' \in {"zero", "one"}, shutter # "waiting",
                        NEW c \in Clients, InFlight(c)
                 PROVE  deadline = "passed"
      OBVIOUS
    <2>1. CASE StartUp
      BY <2>1 DEF StartUp, Connect, MigrateUp, Migrated, StartUpFails, Listen, ListenFails,
                  IInv, Served, InFlight
    <2>2. CASE \E d \in Clients : Request(d)
      BY <2>2 DEF Request, Accept, Receive, Disconnect, Ask, Acquire, GiveUp, Release, Answer,
                  TouchAcquires, TouchEnds
    <2>3. CASE Worker
      BY <2>3 DEF Worker, SetWorker, WorkerTakes, WorkerDelivered, WorkerDeactivates,
                  WorkerAcquires, WorkerGivesUp, WorkerUpdated, WorkerExits
    <2>4. CASE Signal \/ SignalGoroutine \/ DeadlinePasses
      BY <2>4 DEF Signal, SignalGoroutine, BeginShutdown, ShutdownReturns, CancelContext,
                  DeadlinePasses
    <2>5. CASE Watchdog
      BY <2>5 DEF Watchdog
    <2>6. CASE MainStops
      BY <2>6 DEF MainStops, ServeReturns, StopDispatcher, StopReturns, ClosePool, Exit,
                  IInv, ShutdownOrder, InFlight
    <2>7. CASE Kill \/ Restart \/ MigrateCommand
      BY <2>7 DEF Kill, Restart, MigrateCommand, CommandBegins, CommandEnds, CommandFails, server
    <2> QED BY <2>1, <2>2, <2>3, <2>4, <2>5, <2>6, <2>7 DEF Next
  <1> QED BY Inductive, <1>1, PTL DEF Spec, OnlyLateRequestsAreCut, Cut
=============================================================================
