\* The well-behaved server of HeaderParser.cfg, checking that a repeated
\* header name leaves no freed key in the response-header table.
CONSTANTS
  Protos = {"HTTP/1.1"}
  Codes = {200}
  InterimCodes = {}
  RedirectCodes = {}
  Names = {"n1"}
  Values = {"v1", "v2"}
  EmptyValue = EmptyValue
  Seps = {"colon_space"}
  Eols = {"CRLF"}
  Msgs <- MCMsgs
  MaxFields = 2
  MaxInterims = 0
  MaxRedirs = 0
  NoCode = NoCode
  BareStatus = FALSE
  InterimFields = TRUE
INIT Init
NEXT Next
INVARIANT KeysLive
