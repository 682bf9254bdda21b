----------------------------- MODULE RateLimiter -----------------------------
(***************************************************************************)
(* The limiter of the public endpoints, middleware/ratelimit.go: a map     *)
(* from addresses to token buckets, and a goroutine that evicts addresses  *)
(* not seen for the TTL.  A request takes its bucket out of the map under  *)
(* the mutex and spends from it after the mutex is released, so eviction   *)
(* may come in between.  Time passes in ticks, the unit of the constants.  *)
(***************************************************************************)
EXTENDS Naturals

CONSTANTS
  Ips,        \* addresses
  Requests,   \* the requests in progress at a time
  Buckets,    \* rate.Limiter objects, one for each address and request
  Rate,       \* what a bucket gains in a tick
  Cost,       \* what a request spends
  Burst,      \* requests a full bucket admits
  TTL,        \* visitorTTL, in ticks
  Interval,   \* cleanupInterval, in ticks
  MaxStall    \* the ticks the scheduler may keep a request between its two calls

ASSUME RateAssumption == Rate \in Nat /\ Cost \in Nat /\ Burst \in Nat
ASSUME TimeAssumption == TTL \in Nat /\ Interval \in Nat \ {0} /\ MaxStall \in Nat
ASSUME BucketsAssumption == "none" \notin Buckets

Cap == Burst * Cost

\* An address that is forgotten would have had a full bucket by then.
FillsInTime == MaxStall <= TTL /\ Rate * (TTL - MaxStall) >= Cap

VARIABLES
  visitors,   \* address -> its bucket, or "none"
  age,        \* address -> ticks since lastSeen, counted up to TTL + 1
  tokens,     \* bucket -> what it holds
  request,    \* request -> idle, or between GetLimiter and Allow
  elapsed,    \* ticks since the ticker last fired
  ticks,      \* ticks in the ticker's channel, which holds one
  stopChan,   \* "open", or "closed" by Stop
  loop,       \* the clean-up goroutine: "running" or "exited"
  answer      \* request -> "none", "allowed" (handed on) or "refused" (429)

vars == <<visitors, age, tokens, request, elapsed, ticks, stopChan, loop, answer>>
buckets == <<visitors, age, tokens>>
clock == <<elapsed, ticks>>

Idle == [pc |-> "idle"]
Deciding(ip, b, wait) == [pc |-> "deciding", ip |-> ip, bucket |-> b, wait |-> wait]
IsDeciding(r) == request[r].pc = "deciding"

TypeOK ==
  /\ visitors \in [Ips -> Buckets \cup {"none"}]
  /\ age \in [Ips -> 0 .. TTL + 1]
  /\ tokens \in [Buckets -> 0 .. Cap]
  /\ request \in [Requests ->
       {Idle} \cup {Deciding(ip, b, n) : ip \in Ips, b \in Buckets, n \in 0 .. MaxStall}]
  /\ elapsed \in 0 .. Interval - 1
  /\ ticks \in 0 .. 1
  /\ stopChan \in {"open", "closed"}
  /\ loop \in {"running", "exited"}
  /\ answer \in [Requests -> {"none", "allowed", "refused"}]

Init ==
  /\ visitors = [ip \in Ips |-> "none"]
  /\ age = [ip \in Ips |-> 0]
  /\ tokens = [b \in Buckets |-> Cap]
  /\ request = [r \in Requests |-> Idle]
  /\ elapsed = 0
  /\ ticks = 0
  /\ stopChan = "open"
  /\ loop = "running"
  /\ answer = [r \in Requests |-> "none"]

Unused(b) ==
  /\ \A ip \in Ips : visitors[ip] # b
  /\ \A r \in Requests : IsDeciding(r) => request[r].bucket # b

Arrive(r, ip, b) ==
  /\ request[r] = Idle
  /\ request' = [request EXCEPT ![r] = Deciding(ip, b, 0)]
  /\ answer' = [answer EXCEPT ![r] = "none"]

\* GetLimiter, for an address that is not in the map.
NewVisitor(r, ip, b) ==
  /\ visitors[ip] = "none" /\ Unused(b)
  /\ Arrive(r, ip, b)
  /\ visitors' = [visitors EXCEPT ![ip] = b]
  /\ tokens' = [tokens EXCEPT ![b] = Cap]
  /\ age' = [age EXCEPT ![ip] = 0]
  /\ UNCHANGED <<clock, stopChan, loop>>

\* Mutant: lastSeen is written only when the visitor is created.
KnownVisitorUnseen(r, ip) ==
  /\ visitors[ip] # "none"
  /\ Arrive(r, ip, visitors[ip])
  /\ UNCHANGED <<buckets, clock, stopChan, loop>>

\* GetLimiter, for an address that is.
KnownVisitor(r, ip) ==
  /\ visitors[ip] # "none"
  /\ Arrive(r, ip, visitors[ip])
  /\ age' = [age EXCEPT ![ip] = 0]
  /\ UNCHANGED <<visitors, tokens, clock, stopChan, loop>>

\* Limiter.Allow, and what Handler makes of it.
Allow(r) ==
  LET b == request[r].bucket IN
  /\ IsDeciding(r)
  /\ \/ /\ tokens[b] >= Cost
        /\ tokens' = [tokens EXCEPT ![b] = @ - Cost]
        /\ answer' = [answer EXCEPT ![r] = "allowed"]
     \/ /\ tokens[b] < Cost
        /\ answer' = [answer EXCEPT ![r] = "refused"]
        /\ UNCHANGED tokens
  /\ request' = [request EXCEPT ![r] = Idle]
  /\ UNCHANGED <<visitors, age, clock, stopChan, loop>>

\* Mutant: every address is evicted, seen lately or not.
ExpiredAll(ip) == visitors[ip] # "none"

Expired(ip) == visitors[ip] # "none" /\ age[ip] > TTL

\* Mutant: the loop ends after its first round.
CleanupOnce ==
  /\ loop = "running" /\ ticks = 1
  /\ ticks' = 0
  /\ visitors' = [ip \in Ips |-> IF Expired(ip) THEN "none" ELSE visitors[ip]]
  /\ loop' = "exited"
  /\ UNCHANGED <<age, tokens, request, elapsed, stopChan, answer>>

\* The tick is received, and Cleanup runs under the mutex.
Cleanup ==
  /\ loop = "running" /\ ticks = 1
  /\ ticks' = 0
  /\ visitors' = [ip \in Ips |-> IF Expired(ip) THEN "none" ELSE visitors[ip]]
  /\ UNCHANGED <<age, tokens, request, elapsed, stopChan, loop, answer>>

Stop ==
  /\ stopChan' = "closed"
  /\ UNCHANGED <<buckets, request, clock, loop, answer>>

LoopExits ==
  /\ loop = "running" /\ stopChan = "closed"
  /\ loop' = "exited"
  /\ UNCHANGED <<buckets, request, clock, stopChan, answer>>

\* A bucket gains Rate, up to its capacity.
Filled(n) == IF n + Rate < Cap THEN n + Rate ELSE Cap

\* A tick passes.  No request is kept waiting longer than MaxStall.
Tick ==
  /\ \A r \in Requests : IsDeciding(r) => request[r].wait < MaxStall
  /\ tokens' = [b \in Buckets |-> Filled(tokens[b])]
  /\ age' = [ip \in Ips |-> IF age[ip] <= TTL THEN age[ip] + 1 ELSE age[ip]]
  /\ request' = [r \in Requests |->
       IF IsDeciding(r) THEN [request[r] EXCEPT !.wait = @ + 1] ELSE request[r]]
  /\ \/ elapsed + 1 < Interval /\ elapsed' = elapsed + 1 /\ UNCHANGED ticks
     \/ elapsed + 1 = Interval /\ elapsed' = 0 /\ ticks' = 1
  /\ UNCHANGED <<visitors, stopChan, loop, answer>>

Next ==
  \/ \E r \in Requests :
       \/ \E ip \in Ips : KnownVisitor(r, ip) \/ \E b \in Buckets : NewVisitor(r, ip, b)
       \/ Allow(r)
  \/ Cleanup \/ Stop \/ LoopExits \/ Tick

Spec == Init /\ [][Next]_vars

\* A request goes on, time passes, and a select whose stop case stays ready
\* does not choose the ticker for ever.
Fairness ==
  /\ \A r \in Requests : WF_vars(Allow(r))
  /\ WF_vars(Cleanup) /\ WF_vars(LoopExits) /\ WF_vars(Tick)

FairSpec == Spec /\ Fairness

-----------------------------------------------------------------------------
(* What holds, when FillsInTime does *)

\* Evicting addresses, and spending outside the mutex, do not show: requests
\* are admitted and refused as by one bucket per address that lasts for ever.
Level == [ip \in Ips |-> IF visitors[ip] = "none" THEN Cap ELSE tokens[visitors[ip]]]
Ideal == INSTANCE TokenBucket WITH level <- Level
KeepsBuckets == Ideal!Spec

\* No request spends from a bucket that its address has lost, nor from another
\* address's: between GetLimiter and Allow the map does not change under it.
HoldsItsBucket ==
  \A r \in Requests : IsDeciding(r) =>
    \A ip \in Ips : visitors[ip] = request[r].bucket <=> ip = request[r].ip

\* An address that is not seen again leaves the map, unless the limiter stops.
Forgotten ==
  \A ip \in Ips :
    (visitors[ip] # "none") ~> (visitors[ip] = "none" \/ age[ip] = 0 \/ stopChan = "closed")
=============================================================================
