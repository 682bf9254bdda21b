-------------------------- MODULE RateLimiterProofs --------------------------
(***************************************************************************)
(* Proofs about the rate limiter, for any addresses, requests, rate, burst *)
(* and times, as long as a bucket fills before its address is forgotten.   *)
(***************************************************************************)
EXTENDS RateLimiter, TLAPS

USE RateAssumption, TimeAssumption, BucketsAssumption

LEMMA CapNat == Cap \in Nat
  BY DEF Cap

LEMMA FilledFacts ==
  ASSUME NEW n \in 0 .. Cap
  PROVE  Filled(n) \in 0 .. Cap /\ Filled(n) >= n /\ (Filled(n) = Cap \/ Filled(n) = n + Rate)
  BY CapNat DEF Filled

LEMMA DecidingFacts ==
  ASSUME TypeOK, NEW r \in Requests
  PROVE  /\ IsDeciding(r) => request[r].ip \in Ips /\ request[r].bucket \in Buckets
                               /\ request[r].wait \in 0 .. MaxStall
         /\ ~ IsDeciding(r) => request[r] = Idle
  BY DEF TypeOK, IsDeciding, Deciding, Idle

-----------------------------------------------------------------------------
(* Type correctness. *)

LEMMA TypeOKStep == TypeOK /\ [Next]_vars => TypeOK'
  <1> SUFFICES ASSUME TypeOK, [Next]_vars PROVE TypeOK'
    OBVIOUS
  <1> USE CapNat DEF buckets, clock
  <1>1. ASSUME NEW r \in Requests, NEW ip \in Ips, NEW b \in Buckets, Arrive(r, ip, b)
        PROVE  /\ request' \in [Requests -> {Idle} \cup
                    {Deciding(i, c, n) : i \in Ips, c \in Buckets, n \in 0 .. MaxStall}]
               /\ answer' \in [Requests -> {"none", "allowed", "refused"}]
    BY <1>1 DEF Arrive, TypeOK
  <1>2. ASSUME NEW r \in Requests, NEW ip \in Ips, NEW b \in Buckets, NewVisitor(r, ip, b)
        PROVE  TypeOK'
    BY <1>1, <1>2 DEF NewVisitor, TypeOK
  <1>3. ASSUME NEW r \in Requests, NEW ip \in Ips, KnownVisitor(r, ip) PROVE TypeOK'
    <2>1. visitors[ip] \in Buckets
      BY <1>3 DEF KnownVisitor, TypeOK
    <2>2. QED BY <1>1, <1>3, <2>1 DEF KnownVisitor, TypeOK
  <1>4. ASSUME NEW r \in Requests, Allow(r) PROVE TypeOK'
    <2>1. request[r].bucket \in Buckets
      BY <1>4, DecidingFacts DEF Allow
    <2>2. tokens' \in [Buckets -> 0 .. Cap] /\ answer' \in [Requests -> {"none", "allowed", "refused"}]
      BY <1>4, <2>1 DEF Allow, TypeOK
    <2>3. QED BY <1>4, <2>2 DEF Allow, TypeOK
  <1>5. CASE Tick
    <2>1. tokens' \in [Buckets -> 0 .. Cap]
      BY <1>5, FilledFacts DEF Tick, TypeOK
    <2>2. ASSUME NEW r \in Requests, IsDeciding(r)
          PROVE  [request[r] EXCEPT !.wait = @ + 1] \in
                   {Deciding(i, c, n) : i \in Ips, c \in Buckets, n \in 0 .. MaxStall}
      <3>1. PICK i \in Ips, c \in Buckets, n \in 0 .. MaxStall : request[r] = Deciding(i, c, n)
        BY <2>2 DEF TypeOK, IsDeciding, Idle
      <3>2. n + 1 \in 0 .. MaxStall
        BY <1>5, <2>2, <3>1 DEF Tick, Deciding
      <3>3. [request[r] EXCEPT !.wait = @ + 1] = Deciding(i, c, n + 1)
        BY <3>1 DEF Deciding
      <3>4. QED BY <3>2, <3>3
    <2>3. request' \in [Requests -> {Idle} \cup
            {Deciding(i, c, n) : i \in Ips, c \in Buckets, n \in 0 .. MaxStall}]
      BY <1>5, <2>2 DEF Tick, TypeOK
    <2>4. age' \in [Ips -> 0 .. TTL + 1]
      BY <1>5 DEF Tick, TypeOK
    <2>5. elapsed' \in 0 .. Interval - 1
      BY <1>5 DEF Tick, TypeOK
    <2>6. ticks' \in 0 .. 1
      BY <1>5 DEF Tick, TypeOK
    <2>7. UNCHANGED <<visitors, stopChan, loop, answer>>
      BY <1>5 DEF Tick
    <2>8. QED BY <2>1, <2>3, <2>4, <2>5, <2>6, <2>7 DEF TypeOK
  <1>6. CASE Cleanup
    BY <1>6 DEF Cleanup, TypeOK
  <1>7. CASE Stop \/ LoopExits
    BY <1>7 DEF Stop, LoopExits, TypeOK
  <1>8. CASE UNCHANGED vars
    BY <1>8 DEF vars, TypeOK
  <1>9. QED BY <1>2, <1>3, <1>4, <1>5, <1>6, <1>7, <1>8 DEF Next

\* No bucket holds more than the burst or less than nothing, and no request is
\* kept waiting beyond MaxStall.
THEOREM LimiterTyped == Spec => []TypeOK
  <1>1. Init => TypeOK
    BY CapNat DEF Init, TypeOK
  <1>2. QED BY <1>1, TypeOKStep, PTL DEF Spec

-----------------------------------------------------------------------------
(* A bucket that may be evicted is full. *)

\* What a request in progress holds is what its address has, and its address
\* was seen when the request took it.
Registered ==
  \A r \in Requests : IsDeciding(r) =>
    visitors[request[r].ip] = request[r].bucket /\ age[request[r].ip] <= request[r].wait

OneEach ==
  \A i, j \in Ips : visitors[i] = visitors[j] /\ visitors[i] # "none" => i = j

\* What a bucket regains in n ticks, once no request spends from it.
Regained(n) == Rate * (n - MaxStall)

\* Once no request can be in progress, a bucket has only been filling.
Refilled ==
  \A ip \in Ips : visitors[ip] # "none" /\ age[ip] > MaxStall =>
    \/ tokens[visitors[ip]] = Cap
    \/ tokens[visitors[ip]] >= Regained(age[ip])

Filling == Registered /\ OneEach /\ Refilled

LEMMA RegainedStep ==
  ASSUME NEW n \in Nat, n >= MaxStall
  PROVE  Regained(n) \in Nat /\ Regained(n + 1) = Regained(n) + Rate
           /\ (n = MaxStall => Regained(n) = 0)
  <1>1. PICK k \in Nat : k = n - MaxStall
    OBVIOUS
  <1>2. n + 1 - MaxStall = k + 1
    BY <1>1
  <1>3. Rate * (k + 1) = Rate * k + Rate /\ Rate * k \in Nat /\ Rate * 0 = 0
    OBVIOUS
  <1>4. Regained(n) = Rate * k /\ Regained(n + 1) = Rate * (k + 1)
    BY <1>1, <1>2 DEF Regained
  <1>5. n = MaxStall => k = 0
    BY <1>1
  <1>6. QED BY <1>3, <1>4, <1>5

LEMMA FillingStep == FillsInTime /\ TypeOK /\ TypeOK' /\ Filling /\ [Next]_vars => Filling'
  <1> SUFFICES ASSUME FillsInTime, TypeOK, TypeOK', Filling, [Next]_vars PROVE Filling'
    OBVIOUS
  <1> USE CapNat DEF Filling, buckets, clock
  <1>1. ASSUME NEW r \in Requests, NEW ip \in Ips, NEW b \in Buckets, NewVisitor(r, ip, b)
        PROVE  Filling'
    <2>1. Registered'
      BY <1>1, DecidingFacts
      DEF NewVisitor, Arrive, Registered, IsDeciding, Deciding, TypeOK
    <2>2. OneEach'
      BY <1>1 DEF NewVisitor, Unused, OneEach, TypeOK
    <2>3. Refilled'
      BY <1>1 DEF NewVisitor, Unused, Refilled, TypeOK
    <2>4. QED BY <2>1, <2>2, <2>3
  <1>2. ASSUME NEW r \in Requests, NEW ip \in Ips, KnownVisitor(r, ip) PROVE Filling'
    <2>1. Registered'
      BY <1>2, DecidingFacts
      DEF KnownVisitor, Arrive, Registered, IsDeciding, Deciding, TypeOK
    <2>2. OneEach'
      BY <1>2 DEF KnownVisitor, OneEach
    <2>3. Refilled'
      BY <1>2 DEF KnownVisitor, Refilled, TypeOK
    <2>4. QED BY <2>1, <2>2, <2>3
  <1>3. ASSUME NEW r \in Requests, Allow(r) PROVE Filling'
    <2> DEFINE ip == request[r].ip
               b == request[r].bucket
    <2>1. /\ ip \in Ips /\ b \in Buckets /\ visitors[ip] = b /\ age[ip] <= MaxStall
      BY <1>3, DecidingFacts DEF Allow, Registered, TypeOK
    <2>2. Registered'
      BY <1>3 DEF Allow, Registered, IsDeciding, Idle, TypeOK
    <2>3. OneEach'
      BY <1>3 DEF Allow, OneEach
    <2>4. \A c \in Buckets : c # b => tokens'[c] = tokens[c]
      BY <1>3 DEF Allow, TypeOK
    <2>5. UNCHANGED <<visitors, age>>
      BY <1>3 DEF Allow
    <2> HIDE DEF ip, b
    <2>6. Refilled'
      BY <2>1, <2>4, <2>5 DEF Refilled, OneEach, TypeOK
    <2>7. QED BY <2>2, <2>3, <2>6
  <1>4. CASE Tick
    <2>1. Registered'
      BY <1>4, DecidingFacts DEF Tick, Registered, IsDeciding, TypeOK
    <2>2. OneEach'
      BY <1>4 DEF Tick, OneEach
    <2>3. ASSUME NEW ip \in Ips, visitors'[ip] # "none", age'[ip] > MaxStall
          PROVE  \/ tokens'[visitors'[ip]] = Cap
                 \/ tokens'[visitors'[ip]] >= Regained(age'[ip])
      <3> DEFINE b == visitors[ip]
                 n == age[ip]
                 t == tokens[b]
      <3>1. visitors'[ip] = b /\ b \in Buckets /\ n \in Nat /\ t \in 0 .. Cap
        BY <1>4, <2>3 DEF Tick, TypeOK
      <3>2. tokens'[b] = Filled(t) /\ (age'[ip] = n \/ age'[ip] = n + 1)
        BY <1>4, <3>1 DEF Tick, TypeOK
      <3>3. n > MaxStall => t = Cap \/ t >= Regained(n)
        BY <2>3, <3>1 DEF Refilled
      <3>4. Filled(t) \in 0 .. Cap /\ Filled(t) >= t
              /\ (Filled(t) = Cap \/ Filled(t) = t + Rate)
        BY <3>1, FilledFacts
      <3> HIDE DEF b, n, t
      <3>5. n >= MaxStall
        BY <2>3, <3>1, <3>2
      <3>6. Regained(n) \in Nat /\ Regained(n + 1) = Regained(n) + Rate
              /\ (n = MaxStall => Regained(n) = 0)
        BY <3>1, <3>5, RegainedStep
      <3>7. CASE n > MaxStall
        <4>1. Filled(t) = Cap \/ (Filled(t) >= Regained(n) /\ Filled(t) >= Regained(n + 1))
          BY ONLY <3>1, <3>3, <3>4, <3>6, <3>7, CapNat, RateAssumption
        <4>2. QED BY ONLY <3>1, <3>2, <4>1
      <3>8. CASE n = MaxStall
        <4>1. age'[ip] = n + 1
          BY <2>3, <3>2, <3>8
        <4>2. Filled(t) = Cap \/ Filled(t) >= Regained(n + 1)
          BY ONLY <3>1, <3>4, <3>6, <3>8, CapNat, RateAssumption
        <4>3. QED BY ONLY <3>1, <3>2, <4>1, <4>2
      <3>9. QED BY <3>1, <3>5, <3>7, <3>8
    <2>4. QED BY <2>1, <2>2, <2>3 DEF Refilled
  <1>5. CASE Cleanup
    <2>1. \A ip \in Ips : visitors'[ip] \in {visitors[ip], "none"}
                            /\ (age[ip] <= TTL => visitors'[ip] = visitors[ip])
      BY <1>5 DEF Cleanup, Expired, TypeOK
    <2>2. UNCHANGED <<age, tokens, request>>
      BY <1>5 DEF Cleanup
    <2>3. Registered'
      <3> SUFFICES ASSUME NEW r \in Requests, IsDeciding(r)
                   PROVE  /\ visitors'[request[r].ip] = request[r].bucket
                          /\ age[request[r].ip] <= request[r].wait
        BY <2>2 DEF Registered, IsDeciding
      <3>1. request[r].ip \in Ips /\ request[r].wait \in 0 .. MaxStall
        BY DecidingFacts
      <3>2. visitors[request[r].ip] = request[r].bucket /\ age[request[r].ip] <= request[r].wait
        BY DEF Registered
      <3>3. age[request[r].ip] <= TTL
        BY <3>1, <3>2 DEF FillsInTime, TypeOK
      <3>4. QED BY <2>1, <3>1, <3>2, <3>3
    <2>4. OneEach'
      BY <2>1 DEF OneEach
    <2>5. Refilled'
      BY <2>1, <2>2 DEF Refilled
    <2>6. QED BY <2>3, <2>4, <2>5
  <1>6. CASE Stop \/ LoopExits \/ UNCHANGED vars
    BY <1>6 DEF Stop, LoopExits, vars, Registered, IsDeciding, OneEach, Refilled
  <1>7. QED BY <1>1, <1>2, <1>3, <1>4, <1>5, <1>6 DEF Next

LEMMA FillingHolds == ASSUME FillsInTime PROVE Spec => []Filling
  <1>1. Init => Filling
    BY DEF Init, Filling, Registered, OneEach, Refilled, IsDeciding, Idle
  <1>2. TypeOK /\ TypeOK' /\ Filling /\ [Next]_vars => Filling'
    BY FillingStep
  <1>3. QED BY <1>1, <1>2, LimiterTyped, PTL DEF Spec

\* Between its two calls, no request loses its bucket to the clean-up.
THEOREM BucketsAreHeld == ASSUME FillsInTime PROVE Spec => []HoldsItsBucket
  <1>1. TypeOK /\ Filling => HoldsItsBucket
    BY DecidingFacts DEF Filling, Registered, OneEach, HoldsItsBucket
  <1>2. QED BY <1>1, LimiterTyped, FillingHolds, PTL

-----------------------------------------------------------------------------
(* The refinement. *)

LEMMA EvictedIsFull ==
  ASSUME FillsInTime, TypeOK, Filling, NEW ip \in Ips, Expired(ip)
  PROVE  tokens[visitors[ip]] = Cap
  <1> DEFINE t == tokens[visitors[ip]]
  <1>1. visitors[ip] \in Buckets /\ age[ip] = TTL + 1 /\ t \in 0 .. Cap
    BY DEF Expired, TypeOK
  <1>2. t = Cap \/ t >= Regained(TTL + 1)
    BY <1>1 DEF FillsInTime, Filling, Refilled, Expired
  <1>3. Regained(TTL) \in Nat /\ Regained(TTL + 1) = Regained(TTL) + Rate
    BY RegainedStep DEF FillsInTime
  <1>4. Regained(TTL) >= Cap
    BY DEF FillsInTime, Regained
  <1> HIDE DEF t
  <1>5. t = Cap
    BY ONLY <1>1, <1>2, <1>3, <1>4, CapNat, RateAssumption
  <1>6. QED BY <1>5 DEF t

LEMMA IdealInit == Init => Ideal!Init
  BY DEF Init, Ideal!Init, Level

LEMMA IdealStep ==
  ASSUME FillsInTime, TypeOK, Filling, [Next]_vars
  PROVE  [Ideal!Next]_<<Level, answer>>
  <1> USE CapNat DEF buckets, clock
  <1>1. ASSUME NEW r \in Requests, NEW ip \in Ips, NEW b \in Buckets, NewVisitor(r, ip, b)
        PROVE  Ideal!Ask(r)
    <2>1. Level' = Level
      BY <1>1 DEF NewVisitor, Unused, Level, TypeOK
    <2>2. QED BY <1>1, <2>1 DEF NewVisitor, Arrive, Ideal!Ask
  <1>2. ASSUME NEW r \in Requests, NEW ip \in Ips, KnownVisitor(r, ip) PROVE Ideal!Ask(r)
    BY <1>2 DEF KnownVisitor, Arrive, Level, Ideal!Ask
  <1>3. ASSUME NEW r \in Requests, Allow(r)
        PROVE  \E ip \in Ips : Ideal!Admit(r, ip) \/ Ideal!Refuse(r, ip)
    <2> DEFINE ip == request[r].ip
               b == request[r].bucket
    <2>1. ip \in Ips /\ b \in Buckets /\ visitors[ip] = b /\ b # "none"
      BY <1>3, DecidingFacts DEF Allow, Filling, Registered
    <2>2. Level[ip] = tokens[b]
      BY <2>1 DEF Level
    <2>3. \A i \in Ips : visitors[i] = b => i = ip
      BY <2>1 DEF Filling, OneEach
    <2>4. CASE tokens[b] >= Cost /\ tokens' = [tokens EXCEPT ![b] = @ - Cost]
                 /\ answer' = [answer EXCEPT ![r] = "allowed"]
      <3>1. UNCHANGED visitors
        BY <1>3 DEF Allow
      <3> HIDE DEF ip, b
      <3>2. Level' = [Level EXCEPT ![ip] = @ - Cost]
        <4>1. ASSUME NEW i \in Ips
              PROVE  Level'[i] = IF i = ip THEN Level[ip] - Cost ELSE Level[i]
          BY <2>1, <2>2, <2>3, <2>4, <3>1 DEF Level, TypeOK
        <4>2. QED BY <4>1 DEF Level
      <3>3. Ideal!Admit(r, ip)
        BY <2>2, <2>4, <3>2 DEF Ideal!Admit
      <3>4. QED BY <2>1, <3>3
    <2>5. CASE tokens[b] < Cost /\ answer' = [answer EXCEPT ![r] = "refused"]
                 /\ UNCHANGED tokens
      <3>1. UNCHANGED visitors
        BY <1>3 DEF Allow
      <3> HIDE DEF ip, b
      <3>2. Level' = Level
        BY <2>5, <3>1 DEF Level
      <3>3. Ideal!Refuse(r, ip)
        BY <2>2, <2>5, <3>2 DEF Ideal!Refuse
      <3>4. QED BY <2>1, <3>3
    <2>6. QED BY <1>3, <2>4, <2>5 DEF Allow
  <1>4. CASE Tick
    <2>1. tokens' = [b \in Buckets |-> Filled(tokens[b])] /\ UNCHANGED <<visitors, answer>>
      BY <1>4 DEF Tick
    <2>2. \A n : Ideal!Filled(n) = Filled(n)
      BY DEF Ideal!Filled, Filled
    <2>3. Filled(Cap) = Cap
      BY FilledFacts
    <2>4. Level' = [ip \in Ips |-> Ideal!Filled(Level[ip])]
      BY <2>1, <2>2, <2>3 DEF Level, TypeOK
    <2>5. QED BY <2>1, <2>4 DEF Ideal!Next, Ideal!Refill
  <1>5. CASE Cleanup
    <2>1. \A ip \in Ips : Expired(ip) => tokens[visitors[ip]] = Cap
      BY EvictedIsFull
    <2>2. visitors' = [ip \in Ips |-> IF Expired(ip) THEN "none" ELSE visitors[ip]]
            /\ UNCHANGED <<tokens, answer>>
      BY <1>5 DEF Cleanup
    <2>3. Level' = Level
      BY <2>1, <2>2 DEF Level, Expired
    <2>4. QED BY <2>2, <2>3
  <1>6. CASE Stop \/ LoopExits \/ UNCHANGED vars
    BY <1>6 DEF Stop, LoopExits, vars, Level
  <1>7. QED BY <1>1, <1>2, <1>3, <1>4, <1>5, <1>6 DEF Next, Ideal!Next

\* Requests are admitted and refused as by one token bucket per address that
\* is never forgotten.
THEOREM LimiterKeepsBuckets == ASSUME FillsInTime PROVE Spec => KeepsBuckets
  <1>1. TypeOK /\ Filling /\ [Next]_vars => [Ideal!Next]_<<Level, answer>>
    BY IdealStep
  <1>2. QED BY IdealInit, <1>1, LimiterTyped, FillingHolds, PTL
            DEF Spec, KeepsBuckets, Ideal!Spec
=============================================================================
