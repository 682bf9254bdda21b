---------------------------- MODULE MCDispatcher ----------------------------
(* Two subscriptions.  Of two events one reaches both subscriptions and the *)
(* other only the newer one; a lone event reaches both.                     *)
EXTENDS Dispatcher, TLC

CONSTANTS e1, e2

TwoEvents == {e1, e2}
OneEvent == {e1}
TwoSubs == {1, 2}
Overlapping == (e1 :> {1, 2}) @@ (e2 :> {2})
Both == e1 :> {1, 2}
=============================================================================
