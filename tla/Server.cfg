\* Two queries fall back to two upstreams that come and go.
SPECIFICATION Spec
CONSTANTS
  q1 = q1
  q2 = q2
  None = None
  Requests = {q1, q2}
  Upstreams <- TwoUpstreams
  MaxRetries = 1
  NoProbe = {"second"}
  Rcodes = {"NOERROR"}
  Enabled = TRUE
  BlockedRcode = "REFUSED"
INVARIANTS TypeOK HealthyFirst
PROPERTIES ServfailIsLastResort EveryQueryAnswered UpstreamRecovers
\* all queries may have been answered
CHECK_DEADLOCK FALSE
