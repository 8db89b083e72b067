\* ds3_bulk with a manifest larger than libcurl's upload buffer.
CONSTANTS
  Ops = {"bulk"}
  Manifests <- MCLargeManifests
  BufSize = 2
  MaxCalls = 1
SPECIFICATION Spec
INVARIANT UploadFaithful
