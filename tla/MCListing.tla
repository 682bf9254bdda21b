----------------------------- MODULE MCListing -----------------------------
(* Instances of Listing for TLC: three rows, created one after the other.   *)
EXTENDS Listing

Distinct == <<1, 2, 3>>

\* Absent, malformed, a walk's pages, one whose offset is negative, and
\* one whose offset is that of another page, with the greatest limit.
Pages == {<<>>, <<0>>, <<1>>, <<2>>, <<8>>, <<12>>}

\* Absent, and one above the maximum.
Limits == {<<>>, <<1>>, <<7>>}
=============================================================================
