------------------------------- MODULE Server -------------------------------
(***************************************************************************)
(* The life of the server process: start-up with its migration, the pool   *)
(* of database connections, the requests and the dispatcher's worker that  *)
(* use it, and the shutdown on a signal (cmd/server/main.go, db.go,        *)
(* migrate.go).  Three goroutines shut the process down: the one that      *)
(* received the signal, a watchdog that ends the process when the grace    *)
(* period is over, and main, which stops the dispatcher and closes the     *)
(* pool in its deferred calls.                                             *)
(***************************************************************************)
EXTENDS Naturals, FiniteSets

CONSTANTS
  Clients,    \* connections of HTTP clients
  MaxConns    \* DATABASE_MAX_OPEN_CONNS

\* config.Validate asks for a positive number, and no more.
ASSUME MaxConnsAssumption == MaxConns \in Nat \ {0}

VARIABLES
  main,       \* where the main goroutine is in runServer
  signalled,  \* "yes" when the signal channel has been sent a signal
  shutter,    \* the goroutine that waits for the signal
  deadline,   \* the state of shutdownCtx
  conn,       \* client -> state of its connection and of the request on it
  touch,      \* client -> the goroutine that writes last_used_at for it
  worker,     \* the dispatcher's worker
  pool,       \* the *sql.DB
  migrator,   \* "held" when the migration driver has its connection
  schema,     \* the version recorded in the database
  command,    \* the migration that an operator's migrate command is applying
  exit,       \* how the process ended
  \* a history variable, read by the properties only
  undone      \* "yes" when a migrate down was begun after the process's own
              \* migration, and no migrate up has restored the schema since

database == <<schema, command, undone>>
vars == <<main, signalled, shutter, deadline, conn, touch, worker, pool, migrator, database, exit>>

MainStates == {"connecting", "migrating", "applying", "opening", "listening", "waiting",
               "stopping", "closing", "returned"}
ConnStates == {"none", "open", "running", "asking", "holding"}

\* The types; a shutdown in progress has a deadline, and only it has one.
TypeOK ==
  /\ main \in MainStates
  /\ signalled \in {"no", "yes"}
  /\ shutter \in {"waiting", "draining", "drained", "done"}
  /\ deadline \in {"unset", "armed", "cancelled", "passed"}
  /\ conn \in [Clients -> ConnStates]
  /\ touch \in [Clients -> {"none", "asking", "holding"}]
  /\ worker \in {"off", "idle", "sending", "asking", "holding", "exited"}
  /\ pool \in {"unopened", "open", "closed"}
  /\ migrator \in {"none", "held"}
  /\ schema \in {"old", "dirty", "current"}
  /\ command \in {"none", "up", "down"}
  /\ undone \in {"no", "yes"}
  /\ exit \in {"none", "zero", "one", "killed"}
  /\ shutter = "waiting" <=> deadline = "unset"

Init ==
  /\ main = "connecting" /\ signalled = "no"
  /\ shutter = "waiting" /\ deadline = "unset"
  /\ conn = [c \in Clients |-> "none"]
  /\ touch = [c \in Clients |-> "none"]
  /\ worker = "off" /\ pool = "unopened" /\ migrator = "none"
  /\ exit = "none" /\ schema = "old" /\ command = "none" /\ undone = "no"

alive == exit = "none"

\* Connections of the pool in use.  The migration driver takes one with
\* WithInstance, and nothing ever gives it back.
InUse ==
  Cardinality({c \in Clients : conn[c] = "holding"})
    + Cardinality({c \in Clients : touch[c] = "holding"})
    + (IF worker = "holding" THEN 1 ELSE 0)
    + (IF migrator = "held" THEN 1 ELSE 0)

PoolGrants == pool = "open" /\ InUse < MaxConns

\* A request is being served.
InFlight(c) == conn[c] \in {"running", "asking", "holding"}

Accepting == main = "listening" /\ shutter = "waiting"

-----------------------------------------------------------------------------
(* Start-up *)

\* NewDB opens the pool, sets its limit and pings.
Connect ==
  /\ alive /\ main = "connecting"
  /\ pool' = "open"
  /\ main' = "migrating"
  /\ UNCHANGED <<signalled, shutter, deadline, conn, touch, worker, migrator, database, exit>>

\* Mutant: a failed migration is reported, and the server goes on, as seed does.
MigrateUpGoesOn ==
  /\ alive /\ main = "migrating" /\ command = "none"
  /\ migrator' = "held" /\ undone' = "no"
  /\ CASE schema = "old" -> schema' = "dirty" /\ main' = "applying" /\ UNCHANGED exit
       [] schema = "current" -> main' = "opening" /\ UNCHANGED <<schema, exit>>
       [] schema = "dirty" -> main' = "opening" /\ UNCHANGED <<schema, exit>>
  /\ UNCHANGED <<signalled, shutter, deadline, conn, touch, worker, pool, command>>

\* MigrateUp makes a migrator, whose driver keeps a connection of the pool.  With
\* the driver's lock on the database, for which it waits, it marks the schema
\* dirty and then applies the migration; a schema found dirty is an error.
MigrateUp ==
  /\ alive /\ main = "migrating" /\ command = "none"
  /\ migrator' = "held" /\ undone' = "no"
  /\ CASE schema = "old" -> schema' = "dirty" /\ main' = "applying" /\ UNCHANGED exit
       [] schema = "current" -> main' = "opening" /\ UNCHANGED <<schema, exit>>
       [] schema = "dirty" -> exit' = "one" /\ UNCHANGED <<schema, main>>
  /\ UNCHANGED <<signalled, shutter, deadline, conn, touch, worker, pool, command>>

Migrated ==
  /\ alive /\ main = "applying"
  /\ schema' = "current"
  /\ main' = "opening"
  /\ UNCHANGED <<signalled, shutter, deadline, conn, touch, worker, pool, migrator, command,
                 undone, exit>>

\* The database, the migration, its lock or the object store fails: os.Exit(1),
\* which runs no deferred call.
StartUpFails ==
  /\ alive /\ main \in {"connecting", "migrating", "applying", "opening"}
  /\ exit' = "one"
  /\ UNCHANGED <<main, signalled, shutter, deadline, conn, touch, worker, pool, migrator, database>>

\* The dispatcher is started and the signals are registered.
Listen ==
  /\ alive /\ main = "opening"
  /\ worker' = "idle"
  /\ main' = "listening"
  /\ UNCHANGED <<signalled, shutter, deadline, conn, touch, pool, migrator, database, exit>>

\* ListenAndServe fails, other than by Shutdown.
ListenFails ==
  /\ alive /\ Accepting
  /\ exit' = "one"
  /\ UNCHANGED <<main, signalled, shutter, deadline, conn, touch, worker, pool, migrator, database>>

-----------------------------------------------------------------------------
(* Requests.  A handler runs its statements one after the other and holds a
   connection of the pool during each. *)

SetConn(c, s) == conn' = [conn EXCEPT ![c] = s]

Accept(c) ==
  /\ alive /\ Accepting /\ conn[c] = "none"
  /\ SetConn(c, "open")
  /\ UNCHANGED <<main, signalled, shutter, deadline, touch, worker, pool, migrator, database, exit>>

\* The header of a request arrives on an open connection, perhaps after
\* Shutdown began: Shutdown waits for a new connection before it closes it.
Receive(c) ==
  /\ alive /\ conn[c] = "open"
  /\ SetConn(c, "running")
  /\ UNCHANGED <<main, signalled, shutter, deadline, touch, worker, pool, migrator, database, exit>>

\* The client closes an idle connection, or Shutdown does.
Disconnect(c) ==
  /\ alive /\ conn[c] = "open"
  /\ SetConn(c, "none")
  /\ UNCHANGED <<main, signalled, shutter, deadline, touch, worker, pool, migrator, database, exit>>

Ask(c) ==
  /\ alive /\ conn[c] = "running"
  /\ SetConn(c, "asking")
  /\ UNCHANGED <<main, signalled, shutter, deadline, touch, worker, pool, migrator, database, exit>>

Acquire(c) ==
  /\ alive /\ conn[c] = "asking" /\ PoolGrants
  /\ SetConn(c, "holding")
  /\ UNCHANGED <<main, signalled, shutter, deadline, touch, worker, pool, migrator, database, exit>>

\* The statement fails: the pool is closed, or the client went away and its
\* request's context with it.
GiveUp(c) ==
  /\ alive /\ conn[c] = "asking"
  /\ SetConn(c, "running")
  /\ UNCHANGED <<main, signalled, shutter, deadline, touch, worker, pool, migrator, database, exit>>

\* The statement ends.  After the one that looks up the key, the middleware
\* starts a goroutine for last_used_at.  Bound: one such goroutine per client.
Release(c) ==
  /\ alive /\ conn[c] = "holding"
  /\ SetConn(c, "running")
  /\ \/ UNCHANGED touch
     \/ touch[c] = "none" /\ touch' = [touch EXCEPT ![c] = "asking"]
  /\ UNCHANGED <<main, signalled, shutter, deadline, worker, pool, migrator, database, exit>>

\* The response is written; Shutdown ends keep-alive.
Answer(c) ==
  /\ alive /\ conn[c] = "running"
  /\ SetConn(c, IF shutter = "waiting" THEN "open" ELSE "none")
  /\ UNCHANGED <<main, signalled, shutter, deadline, touch, worker, pool, migrator, database, exit>>

\* The goroutine for last_used_at: nobody waits for it.
TouchAcquires(c) ==
  /\ alive /\ touch[c] = "asking" /\ PoolGrants
  /\ touch' = [touch EXCEPT ![c] = "holding"]
  /\ UNCHANGED <<main, signalled, shutter, deadline, conn, worker, pool, migrator, database, exit>>

\* Mutant: a statement that ends does not give its connection back.
TouchEndsHolding(c) ==
  /\ alive /\ touch[c] = "asking"
  /\ touch' = [touch EXCEPT ![c] = "none"]
  /\ UNCHANGED <<main, signalled, shutter, deadline, conn, worker, pool, migrator, database, exit>>

\* Its statement ended, its five seconds are over, or the pool is closed.
TouchEnds(c) ==
  /\ alive /\ touch[c] \in {"asking", "holding"}
  /\ touch' = [touch EXCEPT ![c] = "none"]
  /\ UNCHANGED <<main, signalled, shutter, deadline, conn, worker, pool, migrator, database, exit>>

-----------------------------------------------------------------------------
(* The dispatcher's worker, as far as it uses the pool; module Dispatcher has
   the rest. *)

SetWorker(from, to) ==
  /\ alive /\ worker = from /\ worker' = to
  /\ UNCHANGED <<main, signalled, shutter, deadline, conn, touch, pool, migrator, database, exit>>

\* serverStopCtx was called, and Stop was.
ctxDone == shutter = "done"
stopClosed == main \in {"stopping", "closing", "returned"}

WorkerTakes == SetWorker("idle", "sending")
WorkerDelivered == SetWorker("sending", "idle")
WorkerDeactivates == SetWorker("sending", "asking")
WorkerAcquires == PoolGrants /\ SetWorker("asking", "holding")

\* Mutant: the update that deactivates is given a context nobody cancels.
WorkerGivesUpNever == pool = "closed" /\ SetWorker("asking", "idle")

\* The update is made under the server's context.
WorkerGivesUp == (ctxDone \/ pool = "closed") /\ SetWorker("asking", "idle")

WorkerUpdated == SetWorker("holding", "idle")
WorkerExits == (ctxDone \/ stopClosed) /\ SetWorker("idle", "exited")

-----------------------------------------------------------------------------
(* Shutdown *)

\* A signal.  Before signal.Notify its default is to end the process; after
\* the first one the channel is not read again.
Signal ==
  /\ alive
  /\ IF main \in {"connecting", "migrating", "applying", "opening"}
     THEN exit' = "killed" /\ UNCHANGED signalled
     ELSE signalled = "no" /\ signalled' = "yes" /\ UNCHANGED exit
  /\ UNCHANGED <<main, shutter, deadline, conn, touch, worker, pool, migrator, database>>

\* shutdownCtx, its watchdog, and the call of srv.Shutdown.
BeginShutdown ==
  /\ alive /\ signalled = "yes" /\ shutter = "waiting"
  /\ shutter' = "draining" /\ deadline' = "armed"
  /\ UNCHANGED <<main, signalled, conn, touch, worker, pool, migrator, database, exit>>

\* Shutdown returns when no connection is left, or with the error of its context.
ShutdownReturns ==
  /\ alive /\ shutter = "draining"
  /\ (\A c \in Clients : conn[c] = "none") \/ deadline = "passed"
  /\ shutter' = "drained"
  /\ UNCHANGED <<main, signalled, deadline, conn, touch, worker, pool, migrator, database, exit>>

\* The ten seconds are over.
DeadlinePasses ==
  /\ alive /\ deadline = "armed"
  /\ deadline' = "passed"
  /\ UNCHANGED <<main, signalled, shutter, conn, touch, worker, pool, migrator, database, exit>>

\* serverStopCtx: the parent of shutdownCtx and the worker's context.
CancelContext ==
  /\ alive /\ shutter = "drained"
  /\ shutter' = "done"
  /\ deadline' = IF deadline = "armed" THEN "cancelled" ELSE deadline
  /\ UNCHANGED <<main, signalled, conn, touch, worker, pool, migrator, database, exit>>

\* Mutant: the watchdog does not wait for the deadline.
WatchdogDoesNotWait ==
  /\ alive /\ deadline \in {"armed", "passed"}
  /\ exit' = "one"
  /\ UNCHANGED <<main, signalled, shutter, deadline, conn, touch, worker, pool, migrator, database>>

\* The watchdog: os.Exit(1), only if the deadline ended the context.
Watchdog ==
  /\ alive /\ deadline = "passed"
  /\ exit' = "one"
  /\ UNCHANGED <<main, signalled, shutter, deadline, conn, touch, worker, pool, migrator, database>>

\* ListenAndServe returns ErrServerClosed as soon as Shutdown is called.
ServeReturns ==
  /\ alive /\ main = "listening" /\ shutter # "waiting"
  /\ main' = "waiting"
  /\ UNCHANGED <<signalled, shutter, deadline, conn, touch, worker, pool, migrator, database, exit>>

\* main waits for serverCtx; then its deferred calls run, last one first: Stop ...
StopDispatcher ==
  /\ alive /\ main = "waiting" /\ ctxDone
  /\ main' = "stopping"
  /\ UNCHANGED <<signalled, shutter, deadline, conn, touch, worker, pool, migrator, database, exit>>

\* Mutant: Stop does not wait for the worker.
StopReturnsAtOnce ==
  /\ alive /\ main = "stopping"
  /\ main' = "closing"
  /\ UNCHANGED <<signalled, shutter, deadline, conn, touch, worker, pool, migrator, database, exit>>

\* ... which returns when the worker has exited ...
StopReturns ==
  /\ alive /\ main = "stopping" /\ worker = "exited"
  /\ main' = "closing"
  /\ UNCHANGED <<signalled, shutter, deadline, conn, touch, worker, pool, migrator, database, exit>>

\* ... and db.Close.
ClosePool ==
  /\ alive /\ main = "closing"
  /\ pool' = "closed" /\ main' = "returned"
  /\ UNCHANGED <<signalled, shutter, deadline, conn, touch, worker, migrator, database, exit>>

Exit ==
  /\ alive /\ main = "returned"
  /\ exit' = "zero"
  /\ UNCHANGED <<main, signalled, shutter, deadline, conn, touch, worker, pool, migrator, database>>

-----------------------------------------------------------------------------
(* The process is killed, or is started again.  At any time, also beside a
   process that serves requests, an operator may use the migrate command: all
   that keeps two migrations apart is the lock the driver takes. *)

Kill ==
  /\ alive
  /\ exit' = "killed"
  /\ UNCHANGED <<main, signalled, shutter, deadline, conn, touch, worker, pool, migrator, database>>

Restart ==
  /\ ~alive
  /\ main' = "connecting" /\ signalled' = "no"
  /\ shutter' = "waiting" /\ deadline' = "unset"
  /\ conn' = [c \in Clients |-> "none"]
  /\ touch' = [c \in Clients |-> "none"]
  /\ worker' = "off" /\ pool' = "unopened" /\ migrator' = "none"
  /\ exit' = "none"
  /\ UNCHANGED database

server == <<main, signalled, shutter, deadline, conn, touch, worker, pool, migrator, exit>>

\* migrate up or migrate down gets the lock and marks the schema dirty; it
\* refuses a dirty one, and has nothing to do when the schema is there, or gone.
CommandBegins ==
  /\ command = "none" /\ ~(alive /\ main = "applying")
  /\ \/ schema = "old" /\ command' = "up" /\ UNCHANGED undone
     \/ schema = "current" /\ command' = "down" /\ undone' = "yes"
  /\ schema' = "dirty"
  /\ UNCHANGED server

CommandEnds ==
  /\ \/ command = "up" /\ schema' = "current" /\ undone' = "no"
     \/ command = "down" /\ schema' = "old" /\ UNCHANGED undone
  /\ command' = "none"
  /\ UNCHANGED server

\* The migration fails or its process ends, and the schema stays dirty.
CommandFails ==
  /\ command # "none"
  /\ command' = "none"
  /\ UNCHANGED <<schema, undone, server>>

MigrateCommand == CommandBegins \/ CommandEnds \/ CommandFails

StartUp == Connect \/ MigrateUp \/ Migrated \/ StartUpFails \/ Listen \/ ListenFails

Request(c) ==
  \/ Accept(c) \/ Receive(c) \/ Disconnect(c)
  \/ Ask(c) \/ Acquire(c) \/ GiveUp(c) \/ Release(c) \/ Answer(c)
  \/ TouchAcquires(c) \/ TouchEnds(c)

Worker ==
  \/ WorkerTakes \/ WorkerDelivered \/ WorkerDeactivates
  \/ WorkerAcquires \/ WorkerGivesUp \/ WorkerUpdated \/ WorkerExits

MainStops == ServeReturns \/ StopDispatcher \/ StopReturns \/ ClosePool \/ Exit

SignalGoroutine == BeginShutdown \/ ShutdownReturns \/ CancelContext

Next ==
  \/ StartUp
  \/ \E c \in Clients : Request(c)
  \/ Worker
  \/ Signal \/ SignalGoroutine \/ DeadlinePasses \/ Watchdog \/ MainStops
  \/ Kill \/ Restart \/ MigrateCommand

Spec == Init /\ [][Next]_vars

\* What the Go scheduler, the timer and the worker's timeouts and cancelled
\* context guarantee.  Nothing is asked of a request or of its client.
FairSpec ==
  /\ Spec
  /\ WF_vars(SignalGoroutine) /\ WF_vars(MainStops)
  /\ WF_vars(DeadlinePasses) /\ WF_vars(Watchdog)
  /\ WF_vars(WorkerDelivered \/ WorkerDeactivates)
  /\ WF_vars(WorkerGivesUp) /\ WF_vars(WorkerUpdated)
  /\ SF_vars(WorkerExits)

\* And what the database guarantees: a statement ends, and a connection given
\* back often enough is given to everyone who waits for one.
ServingSpec ==
  /\ FairSpec
  /\ \A c \in Clients :
       /\ WF_vars(Release(c)) /\ SF_vars(Acquire(c))
       /\ WF_vars(TouchEnds(c))

-----------------------------------------------------------------------------
(* What holds *)

\* Unless the grace period is over, the pool is closed only when no request is
\* left and the worker has ended: the deferred Stop runs before the deferred
\* Close, and main waits for Shutdown before both.
PoolOutlivesItsUsers ==
  pool = "closed" =>
    /\ worker = "exited"
    /\ deadline = "passed" \/ \A c \in Clients : ~InFlight(c)

\* A request is served on a schema that was migrated completely, however often
\* start-up, shutdown and the migrate command were interrupted before; only a
\* migrate down begun beside this process takes the schema away from it.
ServesCurrentSchema ==
  (alive /\ \E c \in Clients : conn[c] # "none") => schema = "current" \/ undone = "yes"

\* Once Shutdown has begun the process cuts a request off, with either exit
\* status, only after the grace period (or when it is killed).
OnlyLateRequestsAreCut ==
  [][(alive /\ exit' \in {"zero", "one"} /\ shutter # "waiting"
        /\ \E c \in Clients : InFlight(c)) => deadline = "passed"]_vars

\* A signal ends the process, even if requests never end and the worker waits
\* for a connection that never comes.
SignalEndsProcess == (signalled = "yes" /\ alive) ~> ~alive

\* A request waiting for a connection gets one, or the process ends: the
\* connection the migration driver keeps does not starve the requests.
RequestsGetConnections ==
  \A c \in Clients : conn[c] = "asking" ~> conn[c] # "asking" \/ ~alive

(* What the configuration accepts and the code does not do *)

\* config.go: "DATABASE_MAX_OPEN_CONNS must be greater than 0": one is accepted.
\* The migration driver keeps that one, and no request ever gets a connection.
AcceptedPoolServes == RequestsGetConnections
=============================================================================
