---------------------------- MODULE MCRateLimiter ----------------------------
(* Two addresses and two requests.  A request costs two ticks' worth, a full  *)
(* bucket admits two, and refills just in time before it may be forgotten.    *)
EXTENDS RateLimiter, TLC

CONSTANTS r1, r2, ip1, ip2, b1, b2, b3

TwoRequests == {r1, r2}
TwoIps == {ip1, ip2}
ThreeBuckets == {b1, b2, b3}
===============================================================================
