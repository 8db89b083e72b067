--------------------------- MODULE RequestBuilder ---------------------------
(***************************************************************************)
(* How src/src/ds3.c turns a request into what goes on the wire: the       *)
(* request initializers ds3_init_* (ds3.c:473-547), the query string of    *)
(* _net_gen_query_params, the URL, the libcurl options _net_process_request *)
(* sets for the verb and the body callbacks, and the string to sign of     *)
(* _generate_signature_str.                                                *)
(*                                                                         *)
(* The libcurl options that choose the request method and the body are    *)
(* applied in the order the code sets them, with libcurl's semantics:     *)
(* CURLOPT_POST selects POST; CURLOPT_PUT and CURLOPT_UPLOAD select an     *)
(* upload, which libcurl sends as PUT; CURLOPT_CUSTOMREQUEST replaces the  *)
(* method word of the request line.                                        *)
(*                                                                         *)
(* Strings are sequences of opaque tokens; g_strconcat is concatenation.   *)
(***************************************************************************)
EXTENDS Naturals, Sequences, FiniteSets, SequencesExt

CONSTANTS
  Endpoint,    \* client->endpoint
  Buckets,     \* bucket names callers pass
  Objects,     \* object names callers pass
  Lengths,     \* lengths callers declare for ds3_init_put_object
  Keys,        \* query-parameter names
  PValues,     \* query-parameter values
  AnyTables,   \* whether requests may hold any query table, not only the
               \* ones the initializers build
  MaxParams,   \* bound: entries of such a table
  Null         \* NULL

\* Lengths are counts; NULL is not a method word.
ASSUME BuilderAssumption ==
  /\ Lengths \subseteq Nat /\ AnyTables \in BOOLEAN /\ MaxParams \in Nat
  /\ Null \notin {"GET", "PUT", "POST", "DELETE", "HEAD"}

Ops == {"get_service", "get_bucket", "get_object", "put_object",
        "delete_object", "put_bucket", "delete_bucket", "bulk"}

\* The method words of an HTTP request line.
Methods == {"GET", "PUT", "POST", "DELETE", "HEAD"}

-----------------------------------------------------------------------------
(* The request initializers: _common_request_init gives empty header and  *)
(* query tables and a zeroed struct; each ds3_init_* sets verb and path.  *)

Request(verb, path, length, query) ==
  [verb |-> verb, path |-> path, length |-> length, query |-> query]

NoParams == [k \in {} |-> Null]

\* ds3_init_* (ds3.c:473-547), and the operation each request is built for
RequestsFor(op) ==
  CASE op = "get_service" -> {Request("GET", <<"/">>, 0, NoParams)}
    [] op = "get_bucket" ->
         {Request("GET", <<"/", b>>, 0, NoParams) : b \in Buckets}
    [] op = "get_object" ->
         {Request("GET", <<"/", b, "/", o>>, 0, NoParams) :
            b \in Buckets, o \in Objects}
    [] op = "delete_object" ->
         {Request("DELETE", <<"/", b, "/", o>>, 0, NoParams) :
            b \in Buckets, o \in Objects}
    [] op = "put_object" ->
         {Request("PUT", <<"/", b, "/", o>>, n, NoParams) :
            b \in Buckets, o \in Objects, n \in Lengths}
    [] op = "put_bucket" ->
         {Request("PUT", <<"/", b>>, 0, NoParams) : b \in Buckets}
    [] op = "delete_bucket" ->
         {Request("DELETE", <<"/", b>>, 0, NoParams) : b \in Buckets}
    [] op = "bulk" ->
         {Request("PUT", <<"/_rest_/bucket/", b>>, 0, [x \in {"operation"} |-> s]) :
            b \in Buckets, s \in {"start_bulk_get", "start_bulk_put"}}

\* Whether the operation hands _net_process_request an upload source and
\* callback (write_user_struct and write_handler_func): ds3_put_object
\* passes the caller's, ds3_bulk passes _ds3_send_xml_buff (ds3.c:865-883,
\* 632, 745, 1040).
UploadChoices(op) ==
  CASE op = "put_object" -> BOOLEAN
    [] op = "bulk" -> {TRUE}
    [] OTHER -> {FALSE}

-----------------------------------------------------------------------------
(* The query string.                                                       *)

\* A plausible fault: the entry written without its value.
HashForEachKeyOnly(q, k, v) == [q EXCEPT !.entries[q.size + 1] = k]

\* _hash_for_each (ds3.c:257-263): stores "key=value" at
\* entries[entries->size] and never advances entries->size.
HashForEach(q, k, v) == [q EXCEPT !.entries[q.size + 1] = <<k, v>>]

\* g_strjoinv: the strings of a NULL-terminated array, up to its first NULL
StrJoinv(e) ==
  LET end == CHOOSE i \in DOMAIN e : e[i] = Null /\ \A j \in 1..i-1 : e[j] # Null
  IN SubSeq(e, 1, end - 1)

\* A plausible fault: the emptiness test off by one.
QueryParamsNeedTwo(tbl, order) ==
  IF Cardinality(DOMAIN tbl) > 1
    THEN LET n == Cardinality(DOMAIN tbl)
             q0 == [entries |-> [i \in 1..n + 1 |-> Null], size |-> 0]
             step(q, k) == HashForEach(q, k, tbl[k])
         IN StrJoinv(FoldLeft(step, q0, order).entries)
    ELSE Null

\* _net_gen_query_params (ds3.c:265-295): NULL for an empty table, else
\* the entries g_hash_table_foreach visited (in the table's own order)
\* joined with "&".
GenQueryParams(tbl, order) ==
  IF Cardinality(DOMAIN tbl) > 0
    THEN LET n == Cardinality(DOMAIN tbl)
             q0 == [entries |-> [i \in 1..n + 1 |-> Null], size |-> 0]
             step(q, k) == HashForEach(q, k, tbl[k])
         IN StrJoinv(FoldLeft(step, q0, order).entries)
    ELSE Null

\* the URL: endpoint and path, then "?" and the query string if there is
\* one (ds3.c:320-327)
Url(path, qs) ==
  [base |-> <<Endpoint>> \o path, query |-> IF qs = Null THEN << >> ELSE qs]

-----------------------------------------------------------------------------
(* The method, the body and the signature.                                *)

\* A plausible fault: PUT named POST.
NetGetVerbPutAsPost(v) == IF v = "PUT" THEN "POST" ELSE v

\* _net_get_verb (ds3.c:191-201)
NetGetVerb(v) == v

\* What one curl_easy_setopt(handle, opt, val) does to the handle's method
\* and body.
CurlSetopt(h, opt, val) ==
  CASE opt = "POST" -> [h EXCEPT !.method = "POST"]
    [] opt \in {"PUT", "UPLOAD"} -> [h EXCEPT !.method = "PUT", !.upload = TRUE]
    [] opt = "CUSTOMREQUEST" -> [h EXCEPT !.custom = val]
    [] opt = "INFILESIZE" -> [h EXCEPT !.infilesize = val]

\* A plausible fault: the body size not declared.
VerbOptionsNoSize(h, verb, length, wr) ==
  CASE verb \in {"PUT", "POST"} /\ wr ->
         CurlSetopt(CurlSetopt(h, verb, TRUE), "UPLOAD", TRUE)
    [] verb \in {"PUT", "POST"} /\ ~wr -> CurlSetopt(h, "CUSTOMREQUEST", verb)
    [] verb \in {"DELETE", "HEAD"} -> CurlSetopt(h, "CUSTOMREQUEST", verb)
    [] verb = "GET" -> h

\* The switch on request->verb (ds3.c:350-385), its setopt calls in order:
\* PUT and POST upload the body of declared length when an upload
\* callback is given, and fall back to a custom method word when it is
\* not; DELETE and HEAD set the method word; GET sets nothing.
VerbOptions(h, verb, length, wr) ==
  CASE verb \in {"PUT", "POST"} /\ wr ->
         LET h1 == CurlSetopt(h, verb, TRUE)
             h2 == CurlSetopt(h1, "UPLOAD", TRUE)
         IN  CurlSetopt(h2, "INFILESIZE", length)
    [] verb \in {"PUT", "POST"} /\ ~wr -> CurlSetopt(h, "CUSTOMREQUEST", verb)
    [] verb \in {"DELETE", "HEAD"} -> CurlSetopt(h, "CUSTOMREQUEST", verb)
    [] verb = "GET" -> h

\* curl_easy_init: a GET with no body
FreshHandle ==
  [method |-> "GET", custom |-> Null, upload |-> FALSE, infilesize |-> Null]

\* _generate_signature_str (ds3.c:203-217) as _net_process_request calls
\* it (ds3.c:389-391): the verb word, empty MD5 and content type, the
\* date, no amz headers, and request->path as the resource.
StringToSign(verb, path) == [verb |-> NetGetVerb(verb), resource |-> path]

-----------------------------------------------------------------------------

VARIABLES input, wire
vars == <<input, wire>>

\* The tables a request may hold when any table is allowed.
Tables ==
  UNION {[K -> PValues] : K \in {K \in SUBSET Keys : Cardinality(K) <= MaxParams}}

\* The requests an operation may be given: the one its initializer builds,
\* and, when any table is allowed, that request with another query table.
Requests(op) ==
  RequestsFor(op) \cup
  (IF AnyTables THEN {[r EXCEPT !.query = t] : r \in RequestsFor(op), t \in Tables}
                ELSE {})

QueryPairs ==
  (Keys \cup {"operation"}) \X (PValues \cup {"start_bulk_get", "start_bulk_put"})

\* NULL is neither a query entry nor a query string.
ASSUME NullAssumption == Null \notin QueryPairs \cup Seq(QueryPairs)

TypeOK ==
  /\ input.op \in Ops
  /\ input.order \in Seq(DOMAIN input.req.query)
  /\ \/ wire = Null
     \/ /\ wire.method \in Methods
        /\ wire.body \in BOOLEAN
        /\ wire.infilesize \in Lengths \cup {0, Null}
        /\ wire.url.query \in Seq(QueryPairs)
        /\ wire.signed.verb \in Methods

\* A caller hands operation op a request built for it, and, for
\* ds3_put_object, an upload callback or none; the query table will be
\* visited in one of its orders.
Init ==
  /\ \E op \in Ops, w \in {TRUE, FALSE} :
       \E r \in Requests(op) :
         \E ord \in SetToSeqs(DOMAIN r.query) :
           /\ w \in UploadChoices(op)
           /\ input = [op |-> op, req |-> r, wr |-> w, order |-> ord]
  /\ wire = Null

\* What _net_process_request puts on the wire for a caller's input, from
\* the query string to the HTTP headers (ds3.c:312-396): URL, method and
\* body options on a fresh handle, string to sign.
Wire(in) ==
  LET r == in.req
      h == VerbOptions(FreshHandle, r.verb, r.length, in.wr)
  IN [method |-> IF h.custom = Null THEN h.method ELSE h.custom,
      body |-> h.upload \/ h.method = "POST",
      infilesize |-> h.infilesize,
      url |-> Url(r.path, GenQueryParams(r.query, in.order)),
      signed |-> StringToSign(r.verb, r.path)]

\* _net_process_request builds the request
Build ==
  /\ wire = Null
  /\ wire' = Wire(input)
  /\ UNCHANGED input

Done == wire # Null /\ UNCHANGED vars

Next == Build \/ Done

Spec == Init /\ [][Next]_vars

-----------------------------------------------------------------------------
(* Properties.                                                            *)

\* The method libcurl puts on the request line is the verb the request was
\* signed with: the server recomputes the signature from the method it
\* receives, so a mismatch is rejected as a bad signature.
WireMatchesSigned == wire # Null => wire.method = wire.signed.verb

\* A PUT or POST carries an upload body exactly when the operation supplies
\* an upload callback, and then declares the request's length; no other
\* request sends a body (spec: GET, DELETE and HEAD are simple requests).
BodyAsDeclared ==
  wire # Null =>
    /\ wire.body <=> (input.wr /\ input.req.verb \in {"PUT", "POST"})
    /\ wire.body => wire.infilesize = input.req.length

\* The URL's query string holds every parameter of the request's query
\* table exactly once, joined as key=value pairs.
QueryComplete ==
  wire # Null =>
    LET tbl == input.req.query
        qs == wire.url.query
    IN /\ Len(qs) = Cardinality(DOMAIN tbl)
       /\ {qs[i] : i \in DOMAIN qs} = {<<k, tbl[k]>> : k \in DOMAIN tbl}

=============================================================================
