--------------------------- MODULE ApiKeysProofs ---------------------------
(* Proofs about ApiKeys, for any tokens, requests, goroutines and clock. *)
EXTENDS ApiKeys, TLAPS

\* A row has the scope its token was generated for, and a request past the
\* format check holds one of the tokens.
Admitted ==
  /\ \A t \in Tokens : keys[t] \in {"none", scope[t]}
  /\ \A q \in Requests : pc[q] # "idle" => token[q] \in Tokens

\* A token a command has made is generated; what is still to be saved has no
\* row and has let nothing through.
Commanded ==
  /\ command.step = "idle" => command.made = {}
  /\ command.step = "connecting" => command.todo = command.made
  /\ command.step = "printing" => \A t \in command.made : excuse[t] # "none"
  /\ command.step = "saving" =>
       \A t \in command.made \ command.todo : keys[t] = scope[t] \/ excuse[t] # "none"
  /\ \A t \in command.made \cup printed : scope[t] # "none"
  /\ command.todo \subseteq command.made
  /\ \A t \in command.todo : keys[t] = "none" /\ passed[t] = 0

\* A goroutine notes a use there was, at a time that has come.
Noted ==
  /\ \A t \in Tokens : passed[t] # 0 => scope[t] # "none"
  /\ \A t \in Tokens : passed[t] <= now
  /\ \A g \in Touches : touch[g] # "none" => passed[touch[g]] # 0
  /\ \A g \in Touches : touchTime[g] <= now
  /\ \A g \in Touches : touch[g] = "none" => touchTime[g] = 0

\* The goroutine of a key that is not blurred is the only one, and has read the
\* clock after the latest use.
Alone ==
  \A g \in Touches : touch[g] # "none" /\ touch[g] \notin blurred =>
    /\ \A h \in Touches : touch[h] = touch[g] => h = g
    /\ touchTime[g] # 0 => touchTime[g] >= passed[touch[g]]

IInv == /\ TypeOK /\ Admitted /\ Commanded /\ Noted /\ Alone
        /\ ServedIsAuthorised /\ LastUsedIsAUse /\ LastUsedIsLatest /\ SilenceMeansSaved

USE TokensAssumption, MaxTimeAssumption
USE DEF Scopes

-----------------------------------------------------------------------------
LEMMA InitEstablishes == Init => IInv
  <1> SUFFICES ASSUME Init PROVE IInv
    OBVIOUS
  <1> USE DEF Init, NoCommand
  <1>1. TypeOK BY DEF TypeOK
  <1>2. Admitted /\ Commanded /\ Noted /\ Alone
    BY DEF Admitted, Commanded, Noted, Alone
  <1>3. ServedIsAuthorised /\ LastUsedIsAUse /\ LastUsedIsLatest /\ SilenceMeansSaved
    BY DEF ServedIsAuthorised, LastUsedIsAUse, LastUsedIsLatest, SilenceMeansSaved
  <1> QED BY <1>1, <1>2, <1>3 DEF IInv

LEMMA StartKeygenKeeps ==
  ASSUME IInv, NEW t \in Tokens, NEW s \in Scopes, StartKeygen(t, s) PROVE IInv'
  <1> USE DEF IInv, TypeOK, Admitted, Commanded, Noted, StartKeygen, NoCommand,
             rows, handlers, notes, outcome, uses
  <1>1. TypeOK' OBVIOUS
  <1>2. Admitted' OBVIOUS
  <1>3. Commanded' OBVIOUS
  <1>4. Noted' OBVIOUS
  <1>5. Alone' BY DEF Alone
  <1>6. ServedIsAuthorised' BY DEF ServedIsAuthorised
  <1>7. LastUsedIsAUse' /\ LastUsedIsLatest' BY DEF LastUsedIsAUse, LastUsedIsLatest
  <1>8. SilenceMeansSaved' BY DEF SilenceMeansSaved
  <1> QED BY <1>1, <1>2, <1>3, <1>4, <1>5, <1>6, <1>7, <1>8 DEF IInv

LEMMA StartSeedKeeps ==
  ASSUME IInv, NEW a \in Tokens, NEW p \in Tokens, StartSeed(a, p) PROVE IInv'
  <1> USE DEF IInv, TypeOK, Admitted, Commanded, Noted, StartSeed, NoCommand,
             rows, handlers, notes, outcome, uses
  <1>1. TypeOK' OBVIOUS
  <1>2. Admitted' OBVIOUS
  <1>3. Commanded' OBVIOUS
  <1>4. Noted' OBVIOUS
  <1>5. Alone' BY DEF Alone
  <1>6. ServedIsAuthorised' BY DEF ServedIsAuthorised
  <1>7. LastUsedIsAUse' /\ LastUsedIsLatest' BY DEF LastUsedIsAUse, LastUsedIsLatest
  <1>8. SilenceMeansSaved' BY DEF SilenceMeansSaved
  <1> QED BY <1>1, <1>2, <1>3, <1>4, <1>5, <1>6, <1>7, <1>8 DEF IInv

LEMMA NoDatabaseKeeps ==
  ASSUME IInv, NoDatabase PROVE IInv'
  <1> USE DEF IInv, TypeOK, Admitted, Commanded, Noted, NoDatabase,
             rows, handlers, notes, outcome, uses
  <1>1. TypeOK' OBVIOUS
  <1>2. Admitted' OBVIOUS
  <1>3. Commanded' OBVIOUS
  <1>4. Noted' OBVIOUS
  <1>5. Alone' BY DEF Alone
  <1>6. ServedIsAuthorised' BY DEF ServedIsAuthorised
  <1>7. LastUsedIsAUse' /\ LastUsedIsLatest' BY DEF LastUsedIsAUse, LastUsedIsLatest, Alone
  <1>8. SilenceMeansSaved' BY DEF SilenceMeansSaved
  <1> QED BY <1>1, <1>2, <1>3, <1>4, <1>5, <1>6, <1>7, <1>8 DEF IInv

LEMMA ConnectedKeeps ==
  ASSUME IInv, Connected PROVE IInv'
  <1> USE DEF IInv, TypeOK, Admitted, Commanded, Noted, Connected,
             rows, handlers, notes, outcome, uses
  <1>1. TypeOK' OBVIOUS
  <1>2. Admitted' OBVIOUS
  <1>3. Commanded' OBVIOUS
  <1>4. Noted' OBVIOUS
  <1>5. Alone' BY DEF Alone
  <1>6. ServedIsAuthorised' BY DEF ServedIsAuthorised
  <1>7. LastUsedIsAUse' /\ LastUsedIsLatest' BY DEF LastUsedIsAUse, LastUsedIsLatest, Alone
  <1>8. SilenceMeansSaved' BY DEF SilenceMeansSaved
  <1> QED BY <1>1, <1>2, <1>3, <1>4, <1>5, <1>6, <1>7, <1>8 DEF IInv

LEMMA SaveKeeps ==
  ASSUME IInv, NEW t \in Tokens, Save(t) PROVE IInv'
  <1> USE DEF IInv, TypeOK, Admitted, Commanded, Noted, Save, IsNext, Saved,
             rows, handlers, notes, outcome, uses
  <1>1. TypeOK' OBVIOUS
  <1>2. Admitted' OBVIOUS
  <1>3. Commanded' OBVIOUS
  <1>4. Noted' OBVIOUS
  <1>5. Alone' BY DEF Alone
  <1>6. ServedIsAuthorised' BY DEF ServedIsAuthorised
  <1>7. LastUsedIsAUse' /\ LastUsedIsLatest' BY DEF LastUsedIsAUse, LastUsedIsLatest, Alone
  <1>8. SilenceMeansSaved' BY DEF SilenceMeansSaved
  <1> QED BY <1>1, <1>2, <1>3, <1>4, <1>5, <1>6, <1>7, <1>8 DEF IInv

LEMMA SaveFailsKeeps ==
  ASSUME IInv, NEW t \in Tokens, SaveFails(t) PROVE IInv'
  <1> USE DEF IInv, TypeOK, Admitted, Commanded, Noted, SaveFails, IsNext, Failed,
             rows, handlers, notes, outcome, uses
  <1>1. TypeOK' OBVIOUS
  <1>2. Admitted' OBVIOUS
  <1>3. Commanded' OBVIOUS
  <1>4. Noted' OBVIOUS
  <1>5. Alone' BY DEF Alone
  <1>6. ServedIsAuthorised' BY DEF ServedIsAuthorised
  <1>7. LastUsedIsAUse' /\ LastUsedIsLatest' BY DEF LastUsedIsAUse, LastUsedIsLatest, Alone
  <1>8. SilenceMeansSaved' BY DEF SilenceMeansSaved
  <1> QED BY <1>1, <1>2, <1>3, <1>4, <1>5, <1>6, <1>7, <1>8 DEF IInv

LEMMA PrintTokensKeeps ==
  ASSUME IInv, PrintTokens PROVE IInv'
  <1> USE DEF IInv, TypeOK, Admitted, Commanded, Noted, PrintTokens, NoCommand,
             rows, handlers, notes, outcome, uses
  <1>1. TypeOK' OBVIOUS
  <1>2. Admitted' OBVIOUS
  <1>3. Commanded' OBVIOUS
  <1>4. Noted' OBVIOUS
  <1>5. Alone' BY DEF Alone
  <1>6. ServedIsAuthorised' BY DEF ServedIsAuthorised
  <1>7. LastUsedIsAUse' /\ LastUsedIsLatest' BY DEF LastUsedIsAUse, LastUsedIsLatest, Alone
  <1>8. SilenceMeansSaved' BY DEF SilenceMeansSaved
  <1> QED BY <1>1, <1>2, <1>3, <1>4, <1>5, <1>6, <1>7, <1>8 DEF IInv

LEMMA InterruptKeeps ==
  ASSUME IInv, Interrupt PROVE IInv'
  <1> USE DEF IInv, TypeOK, Admitted, Commanded, Noted, Interrupt, NoCommand,
             rows, handlers, notes, outcome, uses
  <1>1. TypeOK' OBVIOUS
  <1>2. Admitted' OBVIOUS
  <1>3. Commanded' OBVIOUS
  <1>4. Noted' OBVIOUS
  <1>5. Alone' BY DEF Alone
  <1>6. ServedIsAuthorised' BY DEF ServedIsAuthorised
  <1>7. LastUsedIsAUse' /\ LastUsedIsLatest' BY DEF LastUsedIsAUse, LastUsedIsLatest, Alone
  <1>8. SilenceMeansSaved' BY DEF SilenceMeansSaved
  <1> QED BY <1>1, <1>2, <1>3, <1>4, <1>5, <1>6, <1>7, <1>8 DEF IInv

LEMMA MigrateKeeps ==
  ASSUME IInv, Migrate PROVE IInv'
  <1> USE DEF IInv, TypeOK, Admitted, Commanded, Noted, Migrate,
             rows, handlers, notes, outcome, uses
  <1>1. TypeOK' OBVIOUS
  <1>2. Admitted' OBVIOUS
  <1>3. Commanded' OBVIOUS
  <1>4. Noted' OBVIOUS
  <1>5. Alone' BY DEF Alone
  <1>6. ServedIsAuthorised' BY DEF ServedIsAuthorised
  <1>7. LastUsedIsAUse' /\ LastUsedIsLatest' BY DEF LastUsedIsAUse, LastUsedIsLatest, Alone
  <1>8. SilenceMeansSaved' BY DEF SilenceMeansSaved
  <1> QED BY <1>1, <1>2, <1>3, <1>4, <1>5, <1>6, <1>7, <1>8 DEF IInv

LEMMA PassKeeps ==
  ASSUME IInv, NEW q \in Requests, NEW g \in Touches, Pass(q, g) PROVE IInv'
  <1> USE DEF IInv, TypeOK, Admitted, Commanded, Noted, Pass, StartTouch, Admits, HasRequiredScope,
             rows, handlers, notes, outcome, uses
  <1>1. TypeOK' OBVIOUS
  <1>2. Admitted' OBVIOUS
  <1>3. Commanded' OBVIOUS
  <1>4. Noted' OBVIOUS
  <1>5. Alone'
    <2> SUFFICES ASSUME NEW f \in Touches, touch'[f] # "none", touch'[f] \notin blurred'
                 PROVE /\ \A h \in Touches : touch'[h] = touch'[f] => h = f
                       /\ touchTime'[f] # 0 => touchTime'[f] >= passed'[touch'[f]]
      BY DEF Alone
    <2>1. CASE f = g
      BY <2>1
    <2>2. CASE f # g
      <3>1. touch'[f] = touch[f] /\ touch[f] # token[q] /\ touch[f] \notin blurred
        BY <2>2
      <3> QED BY <2>2, <3>1 DEF Alone
    <2> QED BY <2>1, <2>2
  <1>6. ServedIsAuthorised' BY DEF ServedIsAuthorised
  <1>7. LastUsedIsAUse' /\ LastUsedIsLatest' BY DEF LastUsedIsAUse, LastUsedIsLatest, Alone
  <1>8. SilenceMeansSaved' BY DEF SilenceMeansSaved
  <1> QED BY <1>1, <1>2, <1>3, <1>4, <1>5, <1>6, <1>7, <1>8 DEF IInv

LEMMA RefuseKeeps ==
  ASSUME IInv, NEW q \in Requests, Refuse(q) PROVE IInv'
  <1> USE DEF IInv, TypeOK, Admitted, Commanded, Noted, Refuse, SetIdle,
             rows, handlers, notes, outcome, uses
  <1>1. TypeOK' OBVIOUS
  <1>2. Admitted' OBVIOUS
  <1>3. Commanded' OBVIOUS
  <1>4. Noted' OBVIOUS
  <1>5. Alone' BY DEF Alone
  <1>6. ServedIsAuthorised' BY DEF ServedIsAuthorised
  <1>7. LastUsedIsAUse' /\ LastUsedIsLatest' BY DEF LastUsedIsAUse, LastUsedIsLatest, Alone
  <1>8. SilenceMeansSaved' BY DEF SilenceMeansSaved
  <1> QED BY <1>1, <1>2, <1>3, <1>4, <1>5, <1>6, <1>7, <1>8 DEF IInv

LEMMA LookupFailsKeeps ==
  ASSUME IInv, NEW q \in Requests, LookupFails(q) PROVE IInv'
  <1> USE DEF IInv, TypeOK, Admitted, Commanded, Noted, LookupFails, SetIdle,
             rows, handlers, notes, outcome, uses
  <1>1. TypeOK' OBVIOUS
  <1>2. Admitted' OBVIOUS
  <1>3. Commanded' OBVIOUS
  <1>4. Noted' OBVIOUS
  <1>5. Alone' BY DEF Alone
  <1>6. ServedIsAuthorised' BY DEF ServedIsAuthorised
  <1>7. LastUsedIsAUse' /\ LastUsedIsLatest' BY DEF LastUsedIsAUse, LastUsedIsLatest, Alone
  <1>8. SilenceMeansSaved' BY DEF SilenceMeansSaved
  <1> QED BY <1>1, <1>2, <1>3, <1>4, <1>5, <1>6, <1>7, <1>8 DEF IInv

LEMMA AnswerKeeps ==
  ASSUME IInv, NEW q \in Requests, Answer(q) PROVE IInv'
  <1> USE DEF IInv, TypeOK, Admitted, Commanded, Noted, Answer, SetIdle,
             rows, handlers, notes, outcome, uses
  <1>1. TypeOK' OBVIOUS
  <1>2. Admitted' OBVIOUS
  <1>3. Commanded' OBVIOUS
  <1>4. Noted' OBVIOUS
  <1>5. Alone' BY DEF Alone
  <1>6. ServedIsAuthorised' BY DEF ServedIsAuthorised
  <1>7. LastUsedIsAUse' /\ LastUsedIsLatest' BY DEF LastUsedIsAUse, LastUsedIsLatest, Alone
  <1>8. SilenceMeansSaved' BY DEF SilenceMeansSaved
  <1> QED BY <1>1, <1>2, <1>3, <1>4, <1>5, <1>6, <1>7, <1>8 DEF IInv

LEMMA TouchReadsClockKeeps ==
  ASSUME IInv, NEW g \in Touches, TouchReadsClock(g) PROVE IInv'
  <1> USE DEF IInv, TypeOK, Admitted, Commanded, Noted, TouchReadsClock,
             rows, handlers, notes, outcome, uses
  <1>1. TypeOK' OBVIOUS
  <1>2. Admitted' OBVIOUS
  <1>3. Commanded' OBVIOUS
  <1>4. Noted' OBVIOUS
  <1>5. Alone' BY DEF Alone
  <1>6. ServedIsAuthorised' BY DEF ServedIsAuthorised
  <1>7. LastUsedIsAUse' /\ LastUsedIsLatest' BY DEF LastUsedIsAUse, LastUsedIsLatest, Alone
  <1>8. SilenceMeansSaved' BY DEF SilenceMeansSaved
  <1> QED BY <1>1, <1>2, <1>3, <1>4, <1>5, <1>6, <1>7, <1>8 DEF IInv

LEMMA TouchUpdatesKeeps ==
  ASSUME IInv, NEW g \in Touches, TouchUpdates(g) PROVE IInv'
  <1> USE DEF IInv, TypeOK, Admitted, Commanded, Noted, TouchUpdates, TouchEnded, Stamped,
             rows, handlers, notes, outcome, uses
  <1>1. TypeOK' OBVIOUS
  <1>2. Admitted' OBVIOUS
  <1>3. Commanded' OBVIOUS
  <1>4. Noted' OBVIOUS
  <1>5. Alone' BY DEF Alone
  <1>6. ServedIsAuthorised' BY DEF ServedIsAuthorised
  <1>7. LastUsedIsAUse' /\ LastUsedIsLatest' BY DEF LastUsedIsAUse, LastUsedIsLatest, Alone
  <1>8. SilenceMeansSaved' BY DEF SilenceMeansSaved
  <1> QED BY <1>1, <1>2, <1>3, <1>4, <1>5, <1>6, <1>7, <1>8 DEF IInv

LEMMA TouchFailsKeeps ==
  ASSUME IInv, NEW g \in Touches, TouchFails(g) PROVE IInv'
  <1> USE DEF IInv, TypeOK, Admitted, Commanded, Noted, TouchFails, TouchEnded,
             rows, handlers, notes, outcome, uses
  <1>1. TypeOK' OBVIOUS
  <1>2. Admitted' OBVIOUS
  <1>3. Commanded' OBVIOUS
  <1>4. Noted' OBVIOUS
  <1>5. Alone' BY DEF Alone
  <1>6. ServedIsAuthorised' BY DEF ServedIsAuthorised
  <1>7. LastUsedIsAUse' /\ LastUsedIsLatest' BY DEF LastUsedIsAUse, LastUsedIsLatest, Alone
  <1>8. SilenceMeansSaved' BY DEF SilenceMeansSaved
  <1> QED BY <1>1, <1>2, <1>3, <1>4, <1>5, <1>6, <1>7, <1>8 DEF IInv

LEMMA TickKeeps ==
  ASSUME IInv, Tick PROVE IInv'
  <1> USE DEF IInv, TypeOK, Admitted, Commanded, Noted, Tick,
             rows, handlers, notes, outcome, uses
  <1>1. TypeOK' OBVIOUS
  <1>2. Admitted' OBVIOUS
  <1>3. Commanded' OBVIOUS
  <1>4. Noted' OBVIOUS
  <1>5. Alone' BY DEF Alone
  <1>6. ServedIsAuthorised' BY DEF ServedIsAuthorised
  <1>7. LastUsedIsAUse' /\ LastUsedIsLatest' BY DEF LastUsedIsAUse, LastUsedIsLatest, Alone
  <1>8. SilenceMeansSaved' BY DEF SilenceMeansSaved
  <1> QED BY <1>1, <1>2, <1>3, <1>4, <1>5, <1>6, <1>7, <1>8 DEF IInv

LEMMA DeleteKeeps ==
  ASSUME IInv, NEW t \in Tokens, Delete(t) PROVE IInv'
  <1> USE DEF IInv, TypeOK, Admitted, Commanded, Noted, Delete,
             rows, handlers, notes, outcome, uses
  <1>1. TypeOK' OBVIOUS
  <1>2. Admitted' OBVIOUS
  <1>3. Commanded' OBVIOUS
  <1>4. Noted' OBVIOUS
  <1>5. Alone' BY DEF Alone
  <1>6. ServedIsAuthorised' BY DEF ServedIsAuthorised
  <1>7. LastUsedIsAUse' /\ LastUsedIsLatest' BY DEF LastUsedIsAUse, LastUsedIsLatest, Alone
  <1>8. SilenceMeansSaved' BY DEF SilenceMeansSaved
  <1> QED BY <1>1, <1>2, <1>3, <1>4, <1>5, <1>6, <1>7, <1>8 DEF IInv

LEMMA ArriveKeeps ==
  ASSUME IInv, NEW q \in Requests, NEW header \in Headers, NEW bearer \in Headers,
         NEW required \in Scopes, Arrive(q, header, bearer, required) PROVE IInv'
  <1> USE DEF IInv, TypeOK, Admitted, Commanded, Noted, Arrive, IsWellFormed, Extracted, Headers,
             rows, handlers, notes, outcome, uses
  <1>1. TypeOK' OBVIOUS
  <1>2. Admitted' OBVIOUS
  <1>3. Commanded' OBVIOUS
  <1>4. Noted' OBVIOUS
  <1>5. Alone' BY DEF Alone
  <1>6. ServedIsAuthorised' BY DEF ServedIsAuthorised
  <1>7. LastUsedIsAUse' /\ LastUsedIsLatest' BY DEF LastUsedIsAUse, LastUsedIsLatest, Alone
  <1>8. SilenceMeansSaved' BY DEF SilenceMeansSaved
  <1> QED BY <1>1, <1>2, <1>3, <1>4, <1>5, <1>6, <1>7, <1>8 DEF IInv

LEMMA NextKeeps == IInv /\ [Next]_vars => IInv'
  <1> SUFFICES ASSUME IInv, [Next]_vars PROVE IInv'
    OBVIOUS
  <1>1. CASE Command
    BY <1>1, StartKeygenKeeps, StartSeedKeeps, NoDatabaseKeeps, ConnectedKeeps,
       PrintTokensKeeps, InterruptKeeps, SaveKeeps, SaveFailsKeeps DEF Command
  <1>2. ASSUME NEW q \in Requests, Request(q) PROVE IInv'
    BY <1>2, ArriveKeeps, PassKeeps, RefuseKeeps, LookupFailsKeeps, AnswerKeeps DEF Request
  <1>3. ASSUME NEW g \in Touches, Touch(g) PROVE IInv'
    BY <1>3, TouchReadsClockKeeps, TouchUpdatesKeeps, TouchFailsKeeps DEF Touch
  <1>4. CASE Tick \/ Migrate
    BY <1>4, TickKeeps, MigrateKeeps
  <1>5. ASSUME NEW t \in Tokens, Delete(t) PROVE IInv'
    BY <1>5, DeleteKeeps
  <1>6. CASE UNCHANGED vars
    BY <1>6 DEF IInv, TypeOK, Admitted, Commanded, Noted, Alone, ServedIsAuthorised,
       LastUsedIsAUse, LastUsedIsLatest, SilenceMeansSaved, vars, rows, handlers, notes,
       outcome, uses
  <1> QED BY <1>1, <1>2, <1>3, <1>4, <1>5, <1>6 DEF Next

(* In every reachable state the inductive invariant holds: rows, handlers, notes and   *)
(* commands of the key store are as the code leaves them, and all five properties do. *)
THEOREM Invariance == Spec => []IInv
  BY InitEstablishes, NextKeeps, PTL DEF Spec

-----------------------------------------------------------------------------
\* Every variable keeps to its type, whatever runs.
THEOREM ApiKeysTyped == Spec => []TypeOK
  <1>1. IInv => TypeOK BY DEF IInv
  <1> QED BY Invariance, <1>1, PTL

\* The middleware lets through no request without a generated token of enough
\* scope, for any number of requests, commands and withdrawals.
THEOREM NoneServedUnauthorised == Spec => []ServedIsAuthorised
  <1>1. IInv => ServedIsAuthorised BY DEF IInv
  <1> QED BY Invariance, <1>1, PTL

\* last_used_at comes from a request that got through.
THEOREM UseWasReal == Spec => []LastUsedIsAUse
  <1>1. IInv => LastUsedIsAUse BY DEF IInv
  <1> QED BY Invariance, <1>1, PTL

\* A note that was alone and succeeded leaves the time of the latest use.
THEOREM LoneNoteIsLatest == Spec => []LastUsedIsLatest
  <1>1. IInv => LastUsedIsLatest BY DEF IInv
  <1> QED BY Invariance, <1>1, PTL

\* What seed prints without a warning is saved, and what keygen does once
\* connected.
THEOREM NoSilentLoss == Spec => []SilenceMeansSaved
  <1>1. IInv => SilenceMeansSaved BY DEF IInv
  <1> QED BY Invariance, <1>1, PTL
=============================================================================
