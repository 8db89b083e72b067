---------------------------- MODULE HeaderParser ----------------------------
(***************************************************************************)
(* The response-header callback _process_header_line of src/src/ds3.c     *)
(* (lines 100-177) and the libcurl transport that drives it.             *)
(*                                                                         *)
(* libcurl calls the callback once per raw header line, synchronously,    *)
(* for EVERY response it reads during one easy_perform: interim 1xx       *)
(* responses, the responses of redirects it follows (FOLLOWLOCATION is    *)
(* set, ds3.c:328) and the final response.  If the callback returns a    *)
(* count other than the line's length, libcurl aborts the transfer.       *)
(*                                                                         *)
(* A raw line is abstracted to what the callback tells apart: a status    *)
(* line (protocol token, status code, message words), a header field      *)
(* (name, value, the separator the server wrote), or an empty line (with  *)
(* its line terminator).  Header names and values are opaque.             *)
(***************************************************************************)
EXTENDS Naturals, Sequences, FiniteSets

CONSTANTS
  Protos,        \* protocol tokens a server may send ("HTTP/1.1", "HTTP/1.0")
  Codes,         \* status codes; 0 stands for a code token strtoll reads as 0
  InterimCodes,  \* 1xx codes libcurl passes through before the real response
  RedirectCodes, \* 3xx codes libcurl follows to a further response
  Names,         \* header field names
  Values,        \* header field values
  EmptyValue,    \* the empty value, which may or may not be among Values
  Seps,          \* separator between name and value: "colon_space" for ": ",
                 \* "colon" for a bare ":"
  Eols,          \* line terminators the server may write
  Msgs,          \* status messages, as sequences of words
  MaxFields,     \* bound: header fields in one response
  MaxInterims,   \* bound: interim responses in one exchange
  MaxRedirs,     \* bound: redirects followed (client->num_redirects)
  NoCode,        \* the missing code token of a bare "HTTP/1.1" status line
  BareStatus,    \* whether the server may send such a line
  InterimFields  \* whether an interim 1xx response may carry header fields

ASSUME ConstAssumption ==
  /\ "HTTP/1.1" \in Protos /\ Protos \subseteq STRING
  /\ Codes \subseteq Nat /\ InterimCodes \subseteq Codes
  /\ RedirectCodes \subseteq Codes /\ InterimCodes \cap RedirectCodes = {}
  /\ Seps \subseteq {"colon_space", "colon"} /\ "colon_space" \in Seps
  /\ Eols \subseteq {"CRLF", "LF"} /\ "CRLF" \in Eols
  /\ Msgs \subseteq Seq(STRING)
  /\ MaxFields \in Nat /\ MaxInterims \in Nat /\ MaxRedirs \in Nat
  /\ NoCode \notin Codes /\ BareStatus \in BOOLEAN /\ InterimFields \in BOOLEAN

\* HTTP makes 100 Continue an interim response, and libcurl reads on
\* after it to the response that follows.
ASSUME ContinueAssumption == 100 \in Codes => 100 \in InterimCodes

NoValue == "<none>"          \* a name with no value in a response
ASSUME NoValueAssumption == NoValue \notin Values

\* A status line "PROTO CODE WORDS..." or, if the server may send one, a
\* bare "PROTO" with no code token and no words.
StatusLines ==
  [kind : {"status"}, proto : Protos, code : Codes, words : Msgs]
  \cup (IF BareStatus
         THEN [kind : {"status"}, proto : Protos, code : {NoCode}, words : {<<>>}]
         ELSE {})
FieldLines  == [kind : {"field"}, name : Names, value : Values, sep : Seps]
BlankLines  == [kind : {"blank"}, eol : Eols]
Lines == StatusLines \cup FieldLines \cup BlankLines
NoLine == [kind |-> "none"]

Entry == [key : Names, value : Values, live : BOOLEAN]

VARIABLES
  \* ds3_response_data (ds3.c:47-53), zeroed by the memset at ds3.c:316
  header_count, status_code, status_message, headers,
  \* split_result arrays allocated by the callback and never freed
  leaked_splits,
  \* "reading" while libcurl delivers header lines, then how it ended
  outcome,
  \* the transport: where in the response it is, the current response's
  \* status line, fields sent in it, interim and redirect responses so far,
  \* and the last value sent per name in the current response
  tphase, cur, nfields, interims, redirects, sent

parser    == <<header_count, status_code, status_message, headers,
               leaked_splits, outcome>>
transport == <<tphase, cur, nfields, interims, redirects, sent>>
vars == <<parser, transport>>

TypeOK ==
  /\ header_count \in Nat
  /\ status_code \in Codes \cup {0}
  /\ status_message \in Seq(STRING)
  /\ headers \subseteq Entry
  /\ leaked_splits \in Nat
  /\ outcome \in {"reading", "done", "aborted", "crashed"}
  /\ tphase \in {"status", "fields", "body"}
  /\ cur \in StatusLines \cup {NoLine}
  /\ nfields \in 0..MaxFields
  /\ interims \in 0..MaxInterims
  /\ redirects \in 0..MaxRedirs
  /\ sent \in [Names -> Values \cup {NoValue}]

-----------------------------------------------------------------------------
(* Plausible faults in the callback, each of which a property must catch: *)
(* the 100 check dropped, the message joined from the wrong token, the    *)
(* status branch taken once too often, the name copied as the value, the  *)
(* first duplicate kept.                                                   *)

StatusMessageFrom4(tokens) == SubSeq(tokens, 4, Len(tokens))
IgnoreNoStatus(code) == FALSE
AwaitingStatusTwice(count) == count <= 1
InsertHeaderNameAsValue(tbl, name, v) ==
  {tbl \cup {[key |-> name, value |-> name, live |-> TRUE]}}
InsertHeaderFirstWins(tbl, name, v) ==
  IF \E e \in tbl : e.key = name
    THEN {tbl} ELSE {tbl \cup {[key |-> name, value |-> v, live |-> TRUE]}}

-----------------------------------------------------------------------------
(* What the callback computes from a line.                                *)

\* to_read = size * nmemb: the raw length, terminator included; a status or
\* field line is always longer than its two-byte terminator.
ToRead(l) == IF l.kind = "blank" /\ l.eol = "LF" THEN 1 ELSE 2 + 1

\* g_strchomp then strlen(header_buff) == 0 (ds3.c:117-120)
IsEmptyLine(l) == l.kind = "blank"

\* g_str_has_prefix(header_buff, "HTTP/1.1") (ds3.c:130)
HasHttp11Prefix(l) == l.kind = "status" /\ l.proto = "HTTP/1.1"

\* g_strsplit left a code token: split_result[1] is not NULL (ds3.c:134-135)
HasCodeToken(l) == l.code # NoCode

\* The status line as g_strsplit(header_buff, " ", 1000) splits it.
Tokens(l) == <<l.proto, l.code>> \o l.words

\* g_strjoinv(" ", split_result + 2) (ds3.c:149): the words after the code
StatusMessage(tokens) == SubSeq(tokens, 3, Len(tokens))

\* status_code == 100 is skipped as provisional (ds3.c:142)
IsIgnoredStatus(code) == code = 100

\* g_strsplit(header_buff, ": ", 2) finds the separator (ds3.c:163).  The
\* chomp at ds3.c:117 strips the trailing blank of "Name: " when the value
\* is empty, leaving "Name:" with no ": " in it.
HasFieldSep(l) == l.kind = "field" /\ l.sep = "colon_space" /\ l.value # EmptyValue

\* The status line is still awaited (ds3.c:128)
AwaitingStatus(count) == count < 1

\* g_hash_table_insert(headers, header->key, header) (ds3.c:170) on a table
\* whose value destructor frees the old header and its key (ds3.c:62-73).
\* On a hit glib keeps the table's OLD key, which that destructor has just
\* freed: the entry is left with a dangling key (live = FALSE).  Comparing
\* a later key with a dangling one reads freed memory, so a stale entry may
\* or may not match: both outcomes are possible.
InsertHeader(tbl, name, v) ==
  LET same == {e \in tbl : e.key = name}
      hit(e) == (tbl \ {e}) \cup {[key |-> name, value |-> v, live |-> FALSE]}
      miss == tbl \cup {[key |-> name, value |-> v, live |-> TRUE]}
  IN IF \E e \in same : e.live
       THEN {hit(e) : e \in {x \in same : x.live}}
       ELSE {hit(e) : e \in same} \cup {miss}

-----------------------------------------------------------------------------
(* The transport: what libcurl may hand the callback next.                *)

\* Status codes the server may answer with (a missing code included),
\* within the bounds.
AllowedCodes ==
  (Codes \cup {NoCode}) \ ( (IF interims < MaxInterims THEN {} ELSE InterimCodes)
          \cup (IF redirects < MaxRedirs THEN {} ELSE RedirectCodes))

\* HTTP lets an interim response carry fields (a 103 Early Hints always
\* does, a 100 Continue may), and libcurl hands them to the header
\* callback like any other; InterimFields says whether the server does.
Offered ==
  CASE tphase = "status" -> {l \in StatusLines : l.code \in AllowedCodes}
    [] tphase = "fields" ->
         BlankLines \cup
         (IF nfields < MaxFields /\ (InterimFields \/ cur.code \notin InterimCodes)
            THEN FieldLines ELSE {})
    [] OTHER -> {}

\* The transport's own step for line l: a status line opens a response, a
\* field is counted, the empty line ends the response; libcurl goes on to a
\* further response after an interim one and after a redirect it follows.
Deliver(l) ==
  CASE l.kind = "status" ->
         /\ tphase' = "fields" /\ cur' = l /\ nfields' = 0
         /\ sent' = [n \in Names |-> NoValue]
         /\ interims' = interims + (IF l.code \in InterimCodes THEN 1 ELSE 0)
         /\ redirects' = redirects + (IF l.code \in RedirectCodes THEN 1 ELSE 0)
    [] l.kind = "field" ->
         /\ nfields' = nfields + 1 /\ sent' = [sent EXCEPT ![l.name] = l.value]
         /\ UNCHANGED <<tphase, cur, interims, redirects>>
    [] OTHER ->
         /\ tphase' = IF cur.code \in InterimCodes \cup RedirectCodes
                        THEN "status" ELSE "body"
         /\ UNCHANGED <<cur, nfields, interims, redirects, sent>>

\* The callback returned to_read: libcurl carries on, and the exchange's
\* headers are complete once the final response's empty line is through.
Accepted == outcome' = IF tphase' = "body" THEN "done" ELSE "reading"

-----------------------------------------------------------------------------
(* _process_header_line (ds3.c:100-177), one branch per return.           *)

Init ==
  /\ header_count = 0 /\ status_code = 0 /\ status_message = <<>>
  /\ headers = {} /\ leaked_splits = 0 /\ outcome = "reading"
  /\ tphase = "status" /\ cur = NoLine /\ nfields = 0
  /\ interims = 0 /\ redirects = 0 /\ sent = [n \in Names |-> NoValue]

\* to_read < 2: return 0, libcurl aborts (ds3.c:111-113)
ShortLine(l) ==
  /\ ToRead(l) < 2
  /\ outcome' = "aborted"
  /\ UNCHANGED <<header_count, status_code, status_message, headers,
                 leaked_splits>>

\* an empty line is consumed and ignored (ds3.c:120-123)
EmptyLine(l) ==
  /\ ToRead(l) >= 2 /\ IsEmptyLine(l)
  /\ Accepted
  /\ UNCHANGED <<header_count, status_code, status_message, headers,
                 leaked_splits>>

\* the first non-empty line must be an HTTP/1.1 status line (ds3.c:128-159).
\* With no code token, g_ascii_strtoll(NULL, &endpointer, 10) either
\* faults (glib builds on strtoll_l) or fails its NULL check and returns
\* 0 leaving endpointer unset, so the test of endpointer reads an
\* uninitialized pointer: the callback returns 0, or goes on to
\* g_strjoinv(split_result + 2), past split_result's NULL terminator.
StatusLine(l) ==
  /\ ToRead(l) >= 2 /\ ~IsEmptyLine(l) /\ AwaitingStatus(header_count)
  /\ UNCHANGED headers
  /\ \/ /\ ~HasHttp11Prefix(l)                       \* ds3.c:155-159
        /\ outcome' = "aborted"
        /\ UNCHANGED <<header_count, status_code, status_message,
                       leaked_splits>>
     \/ /\ HasHttp11Prefix(l) /\ ~HasCodeToken(l)      \* ds3.c:134-141, 149
        /\ outcome' \in {"aborted", "crashed"}
        /\ UNCHANGED <<header_count, status_code, status_message,
                       leaked_splits>>
     \/ /\ HasHttp11Prefix(l) /\ HasCodeToken(l)       \* ds3.c:136-141
        /\ l.code = 0
        /\ outcome' = "aborted"
        /\ UNCHANGED <<header_count, status_code, status_message,
                       leaked_splits>>
     \/ /\ HasHttp11Prefix(l) /\ HasCodeToken(l)       \* ds3.c:142-146,
        /\ l.code # 0 /\ IsIgnoredStatus(l.code)       \* no g_strfreev
        /\ leaked_splits' = leaked_splits + 1
        /\ Accepted
        /\ UNCHANGED <<header_count, status_code, status_message>>
     \/ /\ HasHttp11Prefix(l) /\ HasCodeToken(l)
        /\ l.code # 0 /\ ~IsIgnoredStatus(l.code)
        /\ status_code' = l.code                     \* ds3.c:148-153, 174
        /\ status_message' = StatusMessage(Tokens(l))
        /\ header_count' = header_count + 1
        /\ Accepted
        /\ UNCHANGED leaked_splits

\* every later non-empty line is a "Name: value" field (ds3.c:161-174);
\* without the separator split_result[1] is NULL and strlen(NULL) at
\* ds3.c:168 faults
FieldLine(l) ==
  /\ ToRead(l) >= 2 /\ ~IsEmptyLine(l) /\ ~AwaitingStatus(header_count)
  /\ UNCHANGED <<status_code, status_message, leaked_splits>>
  /\ \/ /\ HasFieldSep(l)
        /\ headers' \in InsertHeader(headers, l.name, l.value)
        /\ header_count' = header_count + 1
        /\ Accepted
     \/ /\ ~HasFieldSep(l)
        /\ outcome' = "crashed"
        /\ UNCHANGED <<header_count, headers>>

\* libcurl reads one header line and calls the callback with it
ProcessHeaderLine ==
  /\ outcome = "reading"
  /\ \E l \in Offered :
       /\ Deliver(l)
       /\ \/ ShortLine(l) \/ EmptyLine(l) \/ StatusLine(l) \/ FieldLine(l)

\* the exchange's header phase is over; nothing more happens
Finished == outcome # "reading" /\ UNCHANGED vars

Next == ProcessHeaderLine \/ Finished

Spec == Init /\ [][Next]_vars

-----------------------------------------------------------------------------
(* Properties.                                                            *)

\* The callback never faults: every line libcurl hands it during an
\* exchange (interim, redirect and final responses alike) is either
\* accepted or rejected with a return of 0, never dereferenced as NULL.
NoCrash == outcome # "crashed"

\* When libcurl has read the whole header block, the recorded status code
\* and message are those of the final response's status line, never of a
\* skipped "100 Continue" or of any other response.
FinalStatusRecorded ==
  outcome = "done" =>
    /\ header_count >= 1
    /\ status_code = cur.code
    /\ status_message = cur.words

\* The callback aborts the transfer only for the reasons the code gives:
\* a status line that is not HTTP/1.1 ("Unsupported Protocol") or whose
\* code does not parse; a well-formed exchange is never cut short.
AbortOnlyOnBadStatus ==
  outcome = "aborted" => cur.proto # "HTTP/1.1" \/ cur.code = 0

\* The value a name maps to in the response-header table (all the values
\* stored under it).
Lookup(n) == {e.value : e \in {x \in headers : x.key = n}}

\* While the exchange is live, the header table holds, for every name, the
\* last value the current response sent for it and nothing else: the
\* last-write-wins semantics the spec asks of duplicate names.
HeadersFaithful ==
  outcome \in {"reading", "done"} =>
    \A n \in Names :
      Lookup(n) = IF sent[n] = NoValue THEN {} ELSE {sent[n]}

\* However the dangling key of a repeated name compares, the table never
\* loses the last value the current response sent for a name: the freed
\* key can leave a stale entry beside it, never drop it.
LatestValueKept ==
  outcome \in {"reading", "done"} =>
    \A n \in Names : sent[n] # NoValue => sent[n] \in Lookup(n)

\* Every split_result array the callback allocates is freed before it
\* returns: an exchange that passes through "100 Continue" leaks nothing.
SplitsFreed == leaked_splits = 0

\* No entry of the header table keeps a key that has been freed: a
\* duplicate header name must not leave a dangling key behind.
KeysLive == \A e \in headers : e.live


-----------------------------------------------------------------------------
(* Refinement: the callback implements HeaderResponse.  The abstract      *)
(* state is read off the response data: no status yet while header_count  *)
(* is 0, the recorded fields after it, and how libcurl's transfer ended.  *)

\* The value the header table gives a name, or NoValue.
TableValue(n) == IF Lookup(n) = {} THEN NoValue ELSE CHOOSE v \in Lookup(n) : TRUE

ResponseState ==
  CASE outcome = "done" -> "complete"
    [] outcome \in {"aborted", "crashed"} -> "failed"
    [] outcome = "reading" /\ header_count = 0 -> "await_status"
    [] outcome = "reading" /\ header_count # 0 -> "fields"

HR == INSTANCE HeaderResponse
        WITH FinalCodes <- Codes \ ({0} \cup InterimCodes),
             rstate <- ResponseState,
             code <- status_code,
             table <- [n \in Names |-> TableValue(n)]

\* Every behaviour of the callback under libcurl is one HeaderResponse
\* allows: the status code is recorded once, from a final response and
\* before any field; each accepted field line changes the value of its own
\* name only, to the value it carries; the table and code are frozen once
\* the final response's empty line is through.
ImplementsHeaderResponse == HR!Spec

=============================================================================
