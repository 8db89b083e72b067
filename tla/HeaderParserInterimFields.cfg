\* The server of HeaderParser.cfg, whose optional 100 Continue may carry
\* header fields, checking that a well-formed exchange is never aborted.
CONSTANTS
  Protos = {"HTTP/1.1", "HTTP/1.0"}
  Codes = {0, 100, 200}
  InterimCodes = {100}
  RedirectCodes = {}
  Names = {"n1", "n2"}
  Values = {"v1", "v2"}
  EmptyValue = EmptyValue
  Seps = {"colon_space"}
  Eols = {"CRLF"}
  Msgs <- MCMsgs
  MaxFields = 2
  MaxInterims = 1
  MaxRedirs = 0
  NoCode = NoCode
  BareStatus = FALSE
  InterimFields = TRUE
INIT Init
NEXT Next
INVARIANT AbortOnlyOnBadStatus
