\* ds3_get_service and ds3_get_bucket, one call each.
CONSTANTS
  Ops <- MCDecodingOps
  Manifests <- MCSmallManifests
  BufSize = 2
  MaxCalls = 1
SPECIFICATION Spec
INVARIANT ErrorReportsCause
