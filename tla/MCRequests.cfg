SPECIFICATION Spec
CONSTANTS
  Names = {"", ".", "..", "x", "x:"}
  Colons = {"x:"}
  Tracking = {0}
  MaxUrlLen = 6
  GlobalDepth = 1
  DepthOf <- MCDepthOf
  Texts <- MCTexts
  Statuses = {200, 403, 404, 503}
  Blocked = {"c"}
  HostDelay = 0
  DelayOf <- MCDelayOf
  Enabled = TRUE
  Backoffs = {1}
  RetryAfters = {3}
  MaxBody = 1
  MaxChunk = 2
  MaxHrefs = 2
  MaxDepth = 3
INVARIANTS OneReport BodyWhole OutboundExact DepthHeld CanonicalStable VariantsAgree LinksReparse
CHECK_DEADLOCK FALSE
