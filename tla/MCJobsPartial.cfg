SPECIFICATION Spec
CONSTANTS
  r1 = r1
  r2 = r2
  j1 = j1
  j2 = j2
  t1 = t1
  t2 = t2
  Requests <- TwoRequests
  JobIds <- TwoJobs
  Titles <- OneTitle
  Slugs <- TwoSlugs
  SlugOf <- OwnSlug
  NewJobs <- Bodies
  Patches <- Changes
  Times <- TwoTimes
PROPERTIES PartialUpdate
SYMMETRY Interchangeable
CHECK_DEADLOCK FALSE
