\* Every operation that returns the exchange's error, ds3_bulk with
\* manifests that fit libcurl's upload buffer, two calls in a row.
CONSTANTS
  Ops <- MCPropagatingOps
  Manifests <- MCSmallManifests
  BufSize = 2
  MaxCalls = 2
SPECIFICATION Spec
INVARIANT ErrorReportsCause
INVARIANT UploadFaithful
