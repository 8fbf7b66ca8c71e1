\* A name that does not exist.
SPECIFICATION Spec
CONSTANTS
  q1 = q1
  q2 = q2
  None = None
  Requests = {q1}
  Upstreams <- TwoUpstreams
  MaxRetries = 1
  NoProbe = {"second"}
  Rcodes = {"NOERROR", "NXDOMAIN"}
  Enabled = TRUE
  BlockedRcode = "REFUSED"
INVARIANTS RcodeReachesClient
\* all queries may have been answered
CHECK_DEADLOCK FALSE
