SPECIFICATION Spec
CONSTANTS
  Singles = {"sni_manip"}
  Chained = {}
  Inputs <- Fragmented
  Jobs <- MCJobs
INVARIANT RecordsSurvive
CHECK_DEADLOCK FALSE
