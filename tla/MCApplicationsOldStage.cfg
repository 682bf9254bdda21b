SPECIFICATION Spec
CONSTANTS
  r1 = r1
  r2 = r2
  j1 = j1
  a1 = a1
  Requests <- TwoRequests
  JobIds <- OneJob
  AppIds <- OneApp
  Stages <- ThreeStages
  Reasons <- OneReason
  MaxNotes = 1
PROPERTIES OldStageIsReplaced
SYMMETRY Interchangeable
CHECK_DEADLOCK FALSE
