---------------------------- MODULE MCApplications ----------------------------
(* Two requests at a time, any number in a row, on one posting and one        *)
(* application.   Three stages cover a move, a rejection and a move back; one *)
(* reason and none cover the branches on the reason.                          *)
EXTENDS Applications, TLC

CONSTANTS r1, r2, j1, a1

TwoRequests == {r1, r2}
OneJob == {j1}
OneApp == {a1}
ThreeStages == {"applied", "screening", "rejected"}
OneReason == {"nil", "unsuitable"}
Interchangeable == Permutations(TwoRequests)
===============================================================================
