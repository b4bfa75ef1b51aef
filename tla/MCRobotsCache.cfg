SPECIFICATION Spec
CONSTANTS
  p = p
  q = q
  v = v
  w = w
  Pods = {p, q}
  Workers = {v, w}
  PodOf <- MCPodOf
  Bodies = {"rules"}
  Forbids = {"rules"}
  BaseTtl = 2
  Bucket = 20
  ObeyGlobal = TRUE
  ObeyHost = "unset"
  MaxDelay = 1
  MaxFaults = 1
INVARIANTS AnswersFresh
