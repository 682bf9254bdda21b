------------------------------- MODULE MCJobs -------------------------------
(* Two requests at a time, any number in a row, on two postings.  The       *)
(* bodies cover a created draft, a created published posting, an omitted    *)
(* and a taken slug, every status, and inputs that validation lets through  *)
(* or refuses; the slug stands for the fields beside the status.  Two times *)
(* tell one that is kept from one that is taken again.                      *)
EXTENDS Jobs, TLC

CONSTANTS r1, r2, j1, j2, t1, t2

TwoRequests == {r1, r2}
TwoJobs == {j1, j2}
TwoTimes == {t1, t2}
OneTitle == {"engineer"}
TwoSlugs == {"engineer", "designer"}
OwnSlug == [t \in OneTitle |-> t]
Bodies ==
  {[title |-> "engineer", slug |-> "", status |-> ""],
   [title |-> "engineer", slug |-> "designer", status |-> "published"],
   [title |-> "engineer", slug |-> "Bad Slug", status |-> "draft"]}
Changes ==
  {"slug" :> "designer", "title" :> "", "status" :> "draft",
   "status" :> "published", "status" :> "archived"}
Interchangeable == 
  Permutations(TwoRequests) \cup Permutations(TwoJobs) \cup Permutations(TwoTimes)
=============================================================================
