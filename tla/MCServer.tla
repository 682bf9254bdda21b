------------------------------ MODULE MCServer ------------------------------
(* Instances of Server for TLC: see the configurations for the pool. *)
EXTENDS Server

CONSTANTS c1, c2

TwoClients == {c1, c2}
OneClient == {c1}
=============================================================================
