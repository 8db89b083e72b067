\* A server that answers one 301, which libcurl follows, then the final
\* response; otherwise well-behaved as in HeaderParser.cfg.
CONSTANTS
  Protos = {"HTTP/1.1"}
  Codes = {200, 301}
  InterimCodes = {}
  RedirectCodes = {301}
  Names = {"n1", "n2"}
  Values = {"v1", "v2"}
  EmptyValue = EmptyValue
  Seps = {"colon_space"}
  Eols = {"CRLF"}
  Msgs <- MCMsgs
  MaxFields = 1
  MaxInterims = 0
  MaxRedirs = 1
  NoCode = NoCode
  BareStatus = FALSE
  InterimFields = TRUE
INIT Init
NEXT Next
INVARIANT NoCrash
