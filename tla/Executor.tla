------------------------------ MODULE Executor ------------------------------
(***************************************************************************)
(* The request executor of src/src/ds3.c: the public operations           *)
(* (ds3_get_service, ds3_get_bucket, ds3_bulk, ds3_get_object, ...), the  *)
(* argument check of _internal_request_dispatcher, one exchange of         *)
(* _net_process_request with its lazy _init_curl, the body upload of the   *)
(* bulk manifest through the read callback _ds3_send_xml_buff, and how     *)
(* each operation turns the exchange's outcome into the ds3_error it       *)
(* returns.                                                                *)
(*                                                                         *)
(* The transport is an environment: whether curl_easy_init gives a handle, *)
(* whether curl_easy_perform returns CURLE_OK, and which body the server   *)
(* sent are nondeterministic.  A response body is abstracted to what       *)
(* xmlParseMemory and the root-name check tell apart.  The manifest is a   *)
(* sequence of bytes, each a model value.                                  *)
(***************************************************************************)
EXTENDS Naturals, Sequences

CONSTANTS
  Ops,        \* the public operations callers may invoke
  Manifests,  \* XML manifests ds3_bulk may serialize, as byte sequences
  BufSize,    \* bytes libcurl asks the read callback for (its upload buffer)
  MaxCalls    \* bound: operations invoked in one run

AllOps == {"get_service", "get_bucket", "get_object", "put_object",
           "delete_object", "put_bucket", "delete_bucket", "bulk"}

ASSUME ExecutorAssumption ==
  /\ Ops \subseteq AllOps
  /\ BufSize \in Nat \ {0}
  /\ MaxCalls \in Nat
  /\ \A m \in Manifests : m \in Seq(STRING) /\ Len(m) > 0

\* ds3_error_code values, plus "none" for a NULL ds3_error*
Errors == {"none", "MISSING_ARGS", "CURL_HANDLE", "FAILED_REQUEST", "INVALID_XML"}

\* What the body that load_xml_buff collected parses to: nothing at all,
\* bytes xmlParseMemory rejects, a document with the root the operation
\* expects, or a document with another root (an S3 <Error> document).
Bodies == {"empty", "garbage", "expected_root", "other_root"}

VARIABLES
  pc,           \* where the current call is
  op,           \* the operation being executed
  args_ok,      \* client and request non-NULL
  list_ok,      \* bulk: request->object_list non-NULL and non-empty
  initialized,  \* the static flag of _init_curl
  manifest,     \* bulk: the serialized XML, send_buff.buff
  sent,         \* bulk: the body bytes libcurl has uploaded
  body,         \* the response body collected into xml_blob
  cause,        \* the first error the call met
  result,       \* the ds3_error* the call returned
  calls         \* operations invoked so far

vars == <<pc, op, args_ok, list_ok, initialized, manifest, sent, body,
          cause, result, calls>>

TypeOK ==
  /\ pc \in {"idle", "bulk_args", "dispatch", "net", "upload", "perform",
             "after"}
  /\ op \in Ops \cup {"none"}
  /\ args_ok \in BOOLEAN /\ list_ok \in BOOLEAN
  /\ initialized \in BOOLEAN
  /\ manifest \in Seq(STRING) /\ sent \in Seq(STRING)
  /\ body \in Bodies
  /\ cause \in Errors /\ result \in Errors
  /\ calls \in 0..MaxCalls

-----------------------------------------------------------------------------
(* Plausible faults, each of which a property must catch.                 *)

SendXmlBuffFrom2(m, total_read, n) == SubSeq(m, 2, Len(m))
BulkResultIgnoresNet(err) == "none"

-----------------------------------------------------------------------------
(* Helpers translated from the code.                                       *)

\* _ds3_send_xml_buff (ds3.c:83-98): to_read = size * nmemb, capped by
\* remaining = xml_buff->size - xml_buff->total_read, then strncpy from
\* the START of xml_buff->buff.  total_read is never advanced, so every
\* call copies the manifest's first bytes again.
SendXmlBuff(m, total_read, n) ==
  LET remaining == Len(m) - total_read
      to_read == IF remaining < n THEN remaining ELSE n
  IN SubSeq(m, 1, to_read)

\* What ds3_bulk returns after _net_process_request (ds3.c:1040-1049):
\* a transport error is passed back as it is.
BulkNetResult(err) == err

\* xmlParseMemory and the root-name check of every decoding operation
\* (ds3.c:634-653, 747-765, 1052-1072): INVALID_XML unless the body is a
\* document with the expected root.
DecodeResult(b) == IF b = "expected_root" THEN "none" ELSE "INVALID_XML"

-----------------------------------------------------------------------------

Init ==
  /\ pc = "idle" /\ op = "none" /\ args_ok = TRUE /\ list_ok = TRUE
  /\ initialized = FALSE
  /\ manifest = <<>> /\ sent = <<>> /\ body = "empty"
  /\ cause = "none" /\ result = "none" /\ calls = 0

\* A caller invokes operation o with client/request present or NULL and,
\* for ds3_bulk, a usable object list or not.
Call ==
  /\ pc = "idle" /\ calls < MaxCalls
  /\ \E o \in Ops, a \in BOOLEAN, l \in BOOLEAN :
       /\ op' = o /\ args_ok' = a /\ list_ok' = l
       /\ pc' = IF o = "bulk" THEN "bulk_args" ELSE "dispatch"
  /\ calls' = calls + 1
  /\ manifest' = <<>> /\ sent' = <<>> /\ body' = "empty"
  /\ cause' = "none" /\ result' = "none"
  /\ UNCHANGED initialized

\* ds3_bulk's own argument checks, then the manifest is serialized with
\* xmlDocDumpFormatMemory and request->length set to its strlen
\* (ds3.c:999-1037); ds3_bulk calls _net_process_request directly.
BulkArgs ==
  /\ pc = "bulk_args"
  /\ \/ /\ ~args_ok \/ ~list_ok
        /\ cause' = "MISSING_ARGS" /\ result' = "MISSING_ARGS"
        /\ pc' = "idle"
        /\ UNCHANGED manifest
     \/ /\ args_ok /\ list_ok
        /\ manifest' \in Manifests
        /\ pc' = "net"
        /\ UNCHANGED <<cause, result>>
  /\ UNCHANGED <<op, args_ok, list_ok, initialized, sent, body, calls>>

\* _internal_request_dispatcher (ds3.c:549-554)
Dispatch ==
  /\ pc = "dispatch"
  /\ \/ /\ ~args_ok
        /\ cause' = "MISSING_ARGS" /\ pc' = "after"
     \/ /\ args_ok
        /\ pc' = "net" /\ UNCHANGED cause
  /\ UNCHANGED <<op, args_ok, list_ok, initialized, manifest, sent, body,
                 result, calls>>

\* _net_process_request up to curl_easy_perform (ds3.c:297-397):
\* _init_curl (ds3.c:180-189) runs curl_global_init once, guarded by its
\* static flag; curl_easy_init may fail (ds3.c:304, 416-418).
Net ==
  /\ pc = "net"
  /\ initialized' = TRUE
  /\ \/ /\ cause' = "CURL_HANDLE" /\ pc' = "after"
     \/ /\ pc' = IF op = "bulk" THEN "upload" ELSE "perform"
        /\ UNCHANGED cause
  /\ UNCHANGED <<op, args_ok, list_ok, manifest, sent, body, result, calls>>

\* libcurl asks the read callback for BufSize bytes and sends what it
\* returns, stopping at CURLOPT_INFILESIZE = request->length bytes
\* (ds3.c:344-347, 363-370, 83-98).
Upload ==
  /\ pc = "upload"
  /\ \/ /\ Len(sent) < Len(manifest)
        /\ LET chunk == SendXmlBuff(manifest, 0, BufSize)
               want == Len(manifest) - Len(sent)
           IN sent' = sent \o SubSeq(chunk, 1, IF Len(chunk) < want
                                                 THEN Len(chunk) ELSE want)
        /\ UNCHANGED pc
     \/ /\ Len(sent) >= Len(manifest)
        /\ pc' = "perform" /\ UNCHANGED sent
  /\ UNCHANGED <<op, args_ok, list_ok, initialized, manifest, body, cause,
                 result, calls>>

\* curl_easy_perform and what follows it (ds3.c:398-414): the transfer
\* ends CURLE_OK or not (a header-callback abort included), with whatever
\* body load_xml_buff collected (ds3.c:556-562); a failure becomes
\* DS3_ERROR_FAILED_REQUEST.
Perform ==
  /\ pc = "perform"
  /\ \E ok \in BOOLEAN, b \in Bodies :
       /\ body' = b
       /\ cause' = IF ok THEN "none" ELSE "FAILED_REQUEST"
  /\ pc' = "after"
  /\ UNCHANGED <<op, args_ok, list_ok, initialized, manifest, sent, result,
                 calls>>

\* The operation turns the exchange into its return value.
\*  - get_object, put_object, delete_object, put_bucket, delete_bucket
\*    return the dispatcher's error as it is (ds3.c:865-883);
\*  - ds3_bulk returns a transport error, else decodes (ds3.c:1040-1072);
\*  - ds3_get_service and ds3_get_bucket DISCARD the dispatcher's return
\*    value and parse xml_blob regardless (ds3.c:632-653, 745-765).
After ==
  /\ pc = "after"
  /\ CASE op \in {"get_object", "put_object", "delete_object", "put_bucket",
                  "delete_bucket"} ->
            result' = cause
       [] op = "bulk" ->
            /\ result' = IF BulkNetResult(cause) # "none"
                           THEN BulkNetResult(cause) ELSE DecodeResult(body)
       [] OTHER ->
            result' = DecodeResult(body)
  /\ pc' = "idle"
  /\ UNCHANGED <<op, args_ok, list_ok, initialized, manifest, sent, body,
                 cause, calls>>

\* No more calls: the process is done with the library.
Quiet == pc = "idle" /\ calls = MaxCalls /\ UNCHANGED vars

Next == Call \/ BulkArgs \/ Dispatch \/ Net \/ Upload \/ Perform \/ After \/ Quiet

\* No fairness: curl_easy_perform waits on the server, and ds3.c sets no
\* CURLOPT_TIMEOUT or low-speed limit (ds3.c:320-397), so a server that
\* stays silent keeps a call in Perform forever.
Spec == Init /\ [][Next]_vars

-----------------------------------------------------------------------------
(* Properties.                                                            *)

\* When a call has returned, an error met on the way (missing arguments,
\* no curl handle, a failed transfer) is the error the caller gets back,
\* as the spec's error design asks: a transport failure is reported as
\* FAILED_REQUEST, never masked as INVALID_XML or as success.
ErrorReportsCause ==
  pc = "idle" /\ cause # "none" => result = cause

\* When ds3_bulk's upload is complete, the server has received exactly the
\* serialized manifest, byte for byte.
UploadFaithful == pc = "perform" /\ op = "bulk" => sent = manifest

=============================================================================
