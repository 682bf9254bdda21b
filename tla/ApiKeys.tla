------------------------------ MODULE ApiKeys ------------------------------
(***************************************************************************)
(* API keys: the keygen and seed commands that make them, the middleware   *)
(* that admits a request with one, and the goroutine it starts to note     *)
(* when a key was last used.                                               *)
(*                                                                         *)
(* A token stands for itself and for its SHA-256 hash, which is all the    *)
(* database keeps.  The commands generate a token first and save it if     *)
(* they can; they print it either way.  The middleware looks a token up    *)
(* once; the request goes on while the row may change or go.               *)
(***************************************************************************)
EXTENDS Naturals, Sequences

CONSTANTS
  Tokens,     \* the tokens GenerateKey can draw
  Requests,   \* the requests in progress at a time
  Touches,    \* the goroutines that note a use
  MaxTime     \* bound: the clock

ASSUME TokensAssumption == Tokens \cap {"none", "malformed"} = {}
ASSUME MaxTimeAssumption == MaxTime \in Nat \ {0}

VARIABLES
  schema,     \* "missing" or "current": whether the tables exist
  scope,      \* token -> the scope it was generated for, "none" before that
  keys,       \* token -> the scope in its row, "none" without a row
  lastUsed,   \* token -> last_used_at, 0 for NULL
  command,    \* the command running: its step, its name, the tokens it made
              \* and those it has still to save
  pc,         \* request -> "idle", "lookup" or "serving"
  token,      \* request -> the token it came with
  route,      \* request -> the scope its route requires
  touch,      \* goroutine -> the key whose use it notes, "none" when there is none
  touchTime,  \* goroutine -> the time it has read, 0 before that
  now,        \* the clock
  \* history variables, read by the properties only
  excuse,     \* token -> why it may be missing from the database: "unreached" when
              \* keygen found no database, "known" when a command said so or
              \* somebody deleted the row, else "none"
  printed,    \* the tokens a command has printed
  passed,     \* token -> the time of the latest request it got through, or 0
  blurred     \* the tokens of which a note failed or two were under way at once

rows == <<schema, scope, keys, lastUsed>>
handlers == <<pc, token, route>>
notes == <<touch, touchTime>>
outcome == <<excuse, printed>>
uses == <<passed, blurred>>
vars == <<rows, command, handlers, notes, now, outcome, uses>>

Scopes == {"public", "admin"}

NoCommand == [step |-> "idle", name |-> "none", made |-> {}, todo |-> {}]

Init ==
  /\ schema \in {"missing", "current"}
  /\ scope = [t \in Tokens |-> "none"]
  /\ keys = [t \in Tokens |-> "none"]
  /\ lastUsed = [t \in Tokens |-> 0]
  /\ command = NoCommand
  /\ pc = [q \in Requests |-> "idle"]
  /\ token = [q \in Requests |-> "none"]
  /\ route = [q \in Requests |-> "public"]
  /\ touch = [g \in Touches |-> "none"]
  /\ touchTime = [g \in Touches |-> 0]
  /\ now = 1
  /\ excuse = [t \in Tokens |-> "none"]
  /\ printed = {}
  /\ passed = [t \in Tokens |-> 0]
  /\ blurred = {}

-----------------------------------------------------------------------------
(* keygen and seed                                                          *)

\* keygen makes one key, of the scope asked for.
StartKeygen(t, s) ==
  /\ command = NoCommand
  /\ scope[t] = "none"
  /\ scope' = [scope EXCEPT ![t] = s]
  /\ command' = [step |-> "connecting", name |-> "keygen", made |-> {t}, todo |-> {t}]
  /\ UNCHANGED <<schema, keys, lastUsed, handlers, notes, now, outcome, uses>>

\* seed makes one key of each scope before it looks for the database.
StartSeed(a, p) ==
  /\ command = NoCommand
  /\ a # p /\ scope[a] = "none" /\ scope[p] = "none"
  /\ scope' = [scope EXCEPT ![a] = "admin", ![p] = "public"]
  /\ command' = [step |-> "connecting", name |-> "seed", made |-> {a, p}, todo |-> {a, p}]
  /\ UNCHANGED <<schema, keys, lastUsed, handlers, notes, now, outcome, uses>>

\* No DATABASE_URL, or no answer from the database: seed warns, keygen does not.
NoDatabase ==
  /\ command.step = "connecting"
  /\ command' = [command EXCEPT !.step = "printing"]
  /\ excuse' = [t \in Tokens |->
                  IF t \notin command.made THEN excuse[t]
                  ELSE IF command.name = "seed" THEN "known" ELSE "unreached"]
  /\ UNCHANGED <<rows, handlers, notes, now, printed, uses>>

\* seed migrates on the way.  A migration that fails is a warning, and the saves
\* are tried all the same.
Connected ==
  /\ command.step = "connecting"
  /\ schema' \in IF command.name = "seed" THEN {schema, "current"} ELSE {schema}
  /\ command' = [command EXCEPT !.step = "saving"]
  /\ UNCHANGED <<scope, keys, lastUsed, handlers, notes, now, outcome, uses>>

\* The admin key is saved before the public one.
IsNext(t) ==
  /\ command.step = "saving" /\ t \in command.todo
  /\ scope[t] = "public" => \A u \in command.todo : scope[u] = "public"

Saved(t) == [command EXCEPT !.todo = @ \ {t}]

\* Mutant: the first failure ends the saving.
FailedEnds(t) == [command EXCEPT !.todo = {}]

Failed(t) == [command EXCEPT !.todo = @ \ {t}]

Save(t) ==
  /\ IsNext(t) /\ schema = "current"
  /\ keys' = [keys EXCEPT ![t] = scope[t]]
  /\ command' = Saved(t)
  /\ UNCHANGED <<schema, scope, lastUsed, handlers, notes, now, outcome, uses>>

\* Create returns an error, which the command reports before it goes on to the
\* next key.  The row may have been inserted all the same.
SaveFails(t) ==
  /\ IsNext(t)
  /\ keys' \in {keys} \cup IF schema = "current" THEN {[keys EXCEPT ![t] = scope[t]]} ELSE {}
  /\ command' = Failed(t)
  /\ excuse' = [excuse EXCEPT ![t] = "known"]
  /\ UNCHANGED <<schema, scope, lastUsed, handlers, notes, now, printed, uses>>

PrintTokens ==
  /\ command.step = "printing" \/ (command.step = "saving" /\ command.todo = {})
  /\ printed' = printed \cup command.made
  /\ command' = NoCommand
  /\ UNCHANGED <<rows, handlers, notes, now, excuse, uses>>

\* The command is interrupted; what it saved stays, and nobody knows the token.
Interrupt ==
  /\ command # NoCommand
  /\ command' = NoCommand
  /\ UNCHANGED <<rows, handlers, notes, now, outcome, uses>>

\* The server migrates before it listens, and migrate up does.
Migrate ==
  /\ schema = "missing" /\ schema' = "current"
  /\ UNCHANGED <<scope, keys, lastUsed, command, handlers, notes, now, outcome, uses>>

-----------------------------------------------------------------------------
(* The middleware                                                           *)

\* ExtractAPIKey: X-API-Key if there is one, else the bearer token.  A header is
\* <<>> when it is absent.
Extracted(header, bearer) == IF header # <<>> THEN header ELSE bearer

\* ValidateKeyFormat: one of the two prefixes, and something after it.
IsWellFormed(header) == header # <<>> /\ header[1] # "malformed"

\* A missing or malformed token is answered 401 and changes nothing, so only
\* well-formed ones are steps.
Arrive(q, header, bearer, required) ==
  /\ pc[q] = "idle" /\ schema = "current"
  /\ IsWellFormed(Extracted(header, bearer))
  /\ token' = [token EXCEPT ![q] = Extracted(header, bearer)[1]]
  /\ route' = [route EXCEPT ![q] = required]
  /\ pc' = [pc EXCEPT ![q] = "lookup"]
  /\ UNCHANGED <<rows, command, notes, now, outcome, uses>>

\* Mutant: a public key has the scope of every route.
HasRequiredScopeAny(actual, required) == actual \in Scopes

HasRequiredScope(actual, required) ==
  \/ actual = "admin"
  \/ actual = "public" /\ required = "public"

Admits(q) == HasRequiredScope(keys[token[q]], route[q])

\* A goroutine is started for the use; it has no time yet.
StartTouch(g, t) ==
  /\ touch[g] = "none"
  /\ touch' = [touch EXCEPT ![g] = t]
  /\ blurred' = IF \E h \in Touches : touch[h] = t THEN blurred \cup {t} ELSE blurred
  /\ UNCHANGED touchTime

\* The row is found and its scope is enough: the use is noted aside, and the
\* handler goes on.
Pass(q, g) ==
  /\ pc[q] = "lookup" /\ Admits(q)
  /\ StartTouch(g, token[q])
  /\ passed' = [passed EXCEPT ![token[q]] = now]
  /\ pc' = [pc EXCEPT ![q] = "serving"]
  /\ UNCHANGED <<rows, command, token, route, now, outcome>>

SetIdle(q) == /\ pc' = [pc EXCEPT ![q] = "idle"]
              /\ token' = [token EXCEPT ![q] = "none"]

\* No such row: 401.  Not enough scope: 403.
Refuse(q) ==
  /\ pc[q] = "lookup" /\ ~Admits(q) /\ SetIdle(q)
  /\ UNCHANGED <<rows, command, route, notes, now, outcome, uses>>

\* The lookup fails: 500.
LookupFails(q) ==
  /\ pc[q] = "lookup" /\ SetIdle(q)
  /\ UNCHANGED <<rows, command, route, notes, now, outcome, uses>>

Answer(q) ==
  /\ pc[q] = "serving" /\ SetIdle(q)
  /\ UNCHANGED <<rows, command, route, notes, now, outcome, uses>>

-----------------------------------------------------------------------------
(* Noting the use                                                           *)

TouchReadsClock(g) ==
  /\ touch[g] # "none" /\ touchTime[g] = 0
  /\ touchTime' = [touchTime EXCEPT ![g] = now]
  /\ UNCHANGED <<rows, command, handlers, touch, now, outcome, uses>>

TouchEnded(g) == /\ touch' = [touch EXCEPT ![g] = "none"]
                 /\ touchTime' = [touchTime EXCEPT ![g] = 0]

\* Mutant: the time is set only where there is none yet.
StampedOnce(g) == [lastUsed EXCEPT ![touch[g]] = IF @ = 0 THEN touchTime[g] ELSE @]

\* The UPDATE; it matches nothing when the row is gone.
Stamped(g) == IF keys[touch[g]] = "none" THEN lastUsed
              ELSE [lastUsed EXCEPT ![touch[g]] = touchTime[g]]

TouchUpdates(g) ==
  /\ touch[g] # "none" /\ touchTime[g] # 0
  /\ lastUsed' = Stamped(g)
  /\ TouchEnded(g)
  /\ UNCHANGED <<schema, scope, keys, command, handlers, now, outcome, uses>>

\* The statement fails or takes more than five seconds, which is only logged.
TouchFails(g) ==
  /\ touch[g] # "none" /\ touchTime[g] # 0
  /\ TouchEnded(g)
  /\ blurred' = blurred \cup {touch[g]}
  /\ UNCHANGED <<rows, command, handlers, now, outcome, passed>>

-----------------------------------------------------------------------------
Tick == /\ now < MaxTime /\ now' = now + 1
        /\ UNCHANGED <<rows, command, handlers, notes, outcome, uses>>

\* A key is withdrawn by deleting its row; no endpoint does it.
Delete(t) ==
  /\ keys[t] # "none"
  /\ keys' = [keys EXCEPT ![t] = "none"]
  /\ lastUsed' = [lastUsed EXCEPT ![t] = 0]
  /\ excuse' = [excuse EXCEPT ![t] = "known"]
  /\ UNCHANGED <<schema, scope, command, handlers, notes, now, printed, uses>>

Headers == {<<>>, <<"malformed">>} \cup {<<t>> : t \in Tokens}

Command ==
  \/ \E t \in Tokens, s \in Scopes : StartKeygen(t, s)
  \/ \E a, p \in Tokens : StartSeed(a, p)
  \/ NoDatabase \/ Connected \/ PrintTokens \/ Interrupt
  \/ \E t \in Tokens : Save(t) \/ SaveFails(t)

Request(q) ==
  \/ \E header, bearer \in Headers, required \in Scopes : Arrive(q, header, bearer, required)
  \/ \E g \in Touches : Pass(q, g)
  \/ Refuse(q) \/ LookupFails(q) \/ Answer(q)

Touch(g) == TouchReadsClock(g) \/ TouchUpdates(g) \/ TouchFails(g)

Next == \/ Command
        \/ \E q \in Requests : Request(q)
        \/ \E g \in Touches : Touch(g)
        \/ Tick \/ Migrate
        \/ \E t \in Tokens : Delete(t)

Spec == Init /\ [][Next]_vars

-----------------------------------------------------------------------------
TypeOK ==
  /\ schema \in {"missing", "current"}
  /\ scope \in [Tokens -> Scopes \cup {"none"}]
  /\ keys \in [Tokens -> Scopes \cup {"none"}]
  /\ lastUsed \in [Tokens -> 0..MaxTime]
  /\ command \in [step : {"idle", "connecting", "saving", "printing"},
                  name : {"none", "keygen", "seed"},
                  made : SUBSET Tokens, todo : SUBSET Tokens]
  /\ pc \in [Requests -> {"idle", "lookup", "serving"}]
  /\ token \in [Requests -> Tokens \cup {"none"}]
  /\ route \in [Requests -> Scopes]
  /\ touch \in [Touches -> Tokens \cup {"none"}]
  /\ touchTime \in [Touches -> 0..MaxTime]
  /\ now \in 1..MaxTime
  /\ excuse \in [Tokens -> {"none", "unreached", "known"}]
  /\ printed \subseteq Tokens
  /\ passed \in [Tokens -> 0..MaxTime]
  /\ blurred \subseteq Tokens

\* A request is served with a token that a command made, for the scope of the
\* route or for admin, even where the row has gone since; both commands,
\* both headers and the lookup have a part in it.
ServedIsAuthorised ==
  \A q \in Requests : pc[q] = "serving" =>
    token[q] \in Tokens /\ scope[token[q]] \in {"admin", route[q]}

\* last_used_at is never set by a request that was refused, nor to a time that
\* has not come: a key that has it got some request through.
LastUsedIsAUse ==
  \A t \in Tokens : lastUsed[t] # 0 => passed[t] # 0 /\ lastUsed[t] <= now

\* Once the goroutines of a key are done, last_used_at is no earlier than its
\* latest use, unless one of them failed or two were under way at once: the later
\* of two UPDATEs may carry the earlier time.
LastUsedIsLatest ==
  \A t \in Tokens :
    keys[t] # "none" /\ t \notin blurred /\ (\A g \in Touches : touch[g] # t)
      => lastUsed[t] >= passed[t]

\* A token that seed prints without a warning is in the database until somebody
\* deletes it: a failed migration or a failed first save does not silence the
\* rest.  The same of keygen once it has reached the database.
SilenceMeansSaved ==
  \A t \in printed : keys[t] = scope[t] \/ excuse[t] # "none"
=============================================================================
