----------------------------- MODULE TokenBucket -----------------------------
(***************************************************************************)
(* What the rate limiter promises: one token bucket for every address, for *)
(* ever.  A request is admitted exactly when the bucket of its address     *)
(* holds the price of a request.                                           *)
(***************************************************************************)
EXTENDS Naturals

CONSTANTS Ips, Requests, Rate, Cost, Cap

VARIABLES
  level,    \* address -> what its bucket holds
  answer    \* request -> "none", "allowed" or "refused"

Filled(n) == IF n + Rate < Cap THEN n + Rate ELSE Cap

Init ==
  /\ level = [ip \in Ips |-> Cap]
  /\ answer = [r \in Requests |-> "none"]

Refill ==
  /\ level' = [ip \in Ips |-> Filled(level[ip])]
  /\ UNCHANGED answer

Ask(r) ==
  /\ answer' = [answer EXCEPT ![r] = "none"]
  /\ UNCHANGED level

Admit(r, ip) ==
  /\ level[ip] >= Cost
  /\ level' = [level EXCEPT ![ip] = @ - Cost]
  /\ answer' = [answer EXCEPT ![r] = "allowed"]

Refuse(r, ip) ==
  /\ level[ip] < Cost
  /\ answer' = [answer EXCEPT ![r] = "refused"]
  /\ UNCHANGED level

Next ==
  \/ Refill
  \/ \E r \in Requests : Ask(r) \/ \E ip \in Ips : Admit(r, ip) \/ Refuse(r, ip)

Spec == Init /\ [][Next]_<<level, answer>>
=============================================================================
