# TLA+ models of the ds3 C SDK

This directory holds TLA+ models of `src/src/ds3.c`, the C client for the
DS3 (S3-compatible bulk object storage) REST interface. It also holds TLC
configurations that model-check them, and TLAPS proofs of some of their
properties. `PROJECT.json` lists, in machine-readable form:

- every component;
- every run and the mutant that each of its properties must catch;
- the source lines each definition models;
- the findings, the hazards and the theorems.

## The system and how its parts interact

One public call (`ds3_get_service`, `ds3_get_bucket`, `ds3_bulk`,
`ds3_get_object`, ...) goes through these steps:

1. It checks its arguments, in `_internal_request_dispatcher` or in
   `ds3_bulk` itself.
2. It performs one synchronous HTTP exchange in `_net_process_request`:
   - `_init_curl` makes sure libcurl is initialized;
   - the handle is created, the URL and the signed headers are set;
   - for `ds3_bulk`, the XML manifest is uploaded through the read callback
     `_ds3_send_xml_buff`;
   - `curl_easy_perform` runs. During it, libcurl hands every response
     header line to `_process_header_line`, which fills a
     `ds3_response_data` (status code, message, header table), and hands
     the body to `load_xml_buff`.
3. It turns the outcome into its result:
   - a `ds3_error`;
   - or a response decoded from the XML body by `_parse_buckets`,
     `_parse_owner`, `_parse_object`, `_parse_bulk_object` and
     `_parse_bulk_objects`.

The models follow these three layers:

| Module | Models | Source |
|---|---|---|
| `HeaderParser` | the header callback, driven by libcurl over interim, redirect and final responses | `_process_header_line`, `_ds3_free_response_header`, the header set-up in `_net_process_request` (ds3.c:55-177, 313-333) |
| `Executor` | the public operations, argument checks, one exchange with its failure outcomes, the manifest upload, and the error each operation returns | ds3.c:83-98, 180-189, 297-420, 549-562, 625-653, 865-883, 997-1072 |
| `RequestBuilder` | what goes on the wire for a request: the initializers, the query string, the URL, the libcurl method and body options, the string to sign | ds3.c:191-217, 257-295, 312-396, 473-547 |
| `HeaderResponse` | the abstract response data the header callback promises; `HeaderParser` refines it | |
| `XmlCodec` | the response decoders and the bulk manifest encoder, over small XML trees | ds3.c:564-863, 885-1109 |
| `HeaderParserProofs`, `HeaderParserRefinement`, `ExecutorProofs`, `RequestBuilderProofs` | TLAPS proofs | |
| `MC_*` | the constant definitions the `.cfg` files substitute | |

### HeaderParser

The parser state is:

- `header_count`, `status_code`, `status_message` and `headers`, the fields
  of `ds3_response_data`;
- `leaked_splits`, the `split_result` arrays never freed;
- `outcome`, which is one of:
  - `"reading"`;
  - `"aborted"`: the callback returned a count other than `to_read`, so
    libcurl aborts;
  - `"crashed"`: `strlen(NULL)` at ds3.c:168, or `g_ascii_strtoll(NULL)`
    at ds3.c:135.

The transport state is `tphase`, `cur`, `nfields`, `interims`,
`redirects` and `sent`. It models libcurl calling the callback:

- the status line of each response, then its fields, then a blank line;
- interim 1xx responses, and redirects (`CURLOPT_FOLLOWLOCATION`, at most
  `MaxRedirs`), each followed by another response;
- fields inside an interim response when `InterimFields` is TRUE. HTTP
  allows them (a 103 Early Hints always has some), and libcurl passes them
  to the callback like any other header line.

The callback is `ProcessHeaderLine`, which picks one action per branch of
the C function:

- `ShortLine` (`to_read < 2`);
- `EmptyLine`;
- `StatusLine`, with five disjuncts: no `HTTP/1.1` prefix; a bare
  `HTTP/1.1` with no code token (`g_ascii_strtoll(NULL)`, which faults or
  returns 0 with `endpointer` unset, so `aborted` or `crashed`); a code of
  0; code 100 skipped, which leaks its `split_result` (`leaked_splits`);
  and recording the status;
- `FieldLine`, with two disjuncts: the separator found, or not found
  (crash).

A line is a record that holds the fields the C code inspects: the kind, the
protocol, the code, the message words, the name, the value, the separator
and the line end. The chomp and the split are modelled by what they do to
those fields. A CRLF line end and the `": "` separator are examples.

`InsertHeader` models `g_hash_table_insert` on a table whose value
destructor frees the key:

- on a hit, glib keeps the old key and destroys the old value, so the kept
  key is marked `live |-> FALSE`;
- inserting a name a third time compares against that freed key. This is
  undefined behaviour, modelled as a choice between finding the entry and
  missing it.

The refinement section at the end of the module maps the parser onto
`HeaderResponse`:

- `rstate` is `"await_status"` while `header_count = 0`, `"fields"` after
  it, `"complete"` when `outcome = "done"`, `"failed"` on abort or crash;
- `code` is `status_code`;
- `table` gives each name the value the header table holds for it.

`HeaderResponse` records one final status code (not 0, not interim), then
fields, each of which changes the value of its own name only, then
completes; it may fail at any point before completion. It does not say
which value a field records: that is `HeadersFaithful` and
`LatestValueKept`. `ImplementsHeaderResponse == HR!Spec` is checked by TLC
as a PROPERTY and proved.

### RequestBuilder

`Init` chooses an operation, a request its `ds3_init_*` initializer builds
(`RequestsFor`), whether an upload callback is passed (`UploadChoices`:
`ds3_put_object` may or may not pass one, `ds3_bulk` always does) and the
order in which `g_hash_table_foreach` visits the query table. `Build` is
the part of `_net_process_request` from `_net_gen_query_params` to
`CURLOPT_HTTPHEADER`:

- `GenQueryParams` folds `HashForEach` over the visit order. Like
  `_hash_for_each`, it writes every entry at `entries[size]` and never
  advances `size`. `StrJoinv` joins up to the first NULL.
- `VerbOptions` is the `switch` on the verb. `CurlSetopt` applies each
  option with libcurl's semantics: `POST` selects POST; `PUT` and `UPLOAD`
  select an upload, sent as PUT; `CUSTOMREQUEST` replaces the method word.
- `StringToSign` is what `_generate_signature_str` is given: the verb word
  and `request->path`. The date, HMAC and base64 are left out.

Paths are sequences of tokens, and `g_strconcat` is concatenation.

### Executor

`pc` walks through `idle → (bulk_args | dispatch) → net → (upload) →
perform → after → idle`:

| Action | Models |
|---|---|
| `Call` | a caller invoking an operation with NULL or non-NULL arguments (and, for bulk, an empty or non-empty list) |
| `BulkArgs` | `ds3_bulk`'s two MISSING_ARGS checks and the serialization of the manifest |
| `Dispatch` | `_internal_request_dispatcher` |
| `Net` | `_init_curl` and `curl_easy_init` (which may fail: CURL_HANDLE) |
| `Upload` | one read-callback call: libcurl asks for `BufSize` bytes, `_ds3_send_xml_buff` copies from the start of the buffer because `total_read` is never advanced, and libcurl stops at `INFILESIZE` |
| `Perform` | the result of `curl_easy_perform` (CURLE_OK or not) and the body received |
| `After` | what each operation returns |

`After` distinguishes three groups of operations:

- the object and bucket operations return the dispatcher's error;
- `ds3_bulk` returns a transport error, or else decodes;
- `ds3_get_service` and `ds3_get_bucket` discard the dispatcher's return
  value and parse the body regardless.

A body is abstracted to what `xmlParseMemory` and the root check
distinguish. `Quiet` is the end of a run: all `MaxCalls` calls have been
made.

### XmlCodec

A document is a tree of records `[name, attrs, kids, text]`. In an
indented document libxml2 keeps the whitespace between elements as text
nodes named `"text"` (`Blank`). `xmlNodeListGetString` of an empty element
is `NoText` (NULL).

The module holds these definitions:

- One decoder per function, with its loop written as a fold. A NULL passed
  to `strlen` or `strtoul` is reported as a fault (`Faults`).
- `Strtoul`, which follows glibc on its input:
  - an optional sign;
  - a digit prefix;
  - saturation at `ULONG_MAX = 2^W - 1`;
  - negation modulo `2^W`.
- `FormatLd`, which prints a `uint64_t` as `%ld` does (negative from
  `2^(W-1)`).
- `EncodeBulk`, which builds the manifest `ds3_bulk` serializes.

The state machine picks one input document (`Init`), decodes it once
(`Decode`) and stops (`Done`). A `"roundtrip"` input is a list of objects
that is encoded and then decoded again. `W` is the width of `unsigned long`
(and of `uint64_t`), kept at 5 bits in the runs so that every value,
saturation and wrap-around included, can be enumerated.

## Runs

| Run | Expect | What it shows |
|---|---|---|
| `header_parser` | pass | Against a well-behaved server, the callback never crashes (`NoCrash`). It records the final status code and message (`FinalStatusRecorded`), keeps the last value of each distinct header name (`HeadersFaithful`), and never loses the last value sent for a name (`LatestValueKept`). The callback refines `HeaderResponse` (`ImplementsHeaderResponse`). The server sends HTTP/1.1 or 1.0, codes 0/100/200, an optional 100 Continue that may carry fields, no redirect, and up to two fields. |
| `header_redirect_crash` | violation | A 301 followed by libcurl: the final response's status line arrives with `header_count ≥ 1`, is split as a field, and `strlen(NULL)` crashes. |
| `header_dup_key_uaf` | violation | Two fields with the same name leave the table holding a freed key (`KeysLive`). |
| `executor` | pass | For the operations that return the exchange's error, and manifests of up to `BufSize` bytes: every error met is the error returned once the call returns (`ErrorReportsCause`), and the uploaded bytes are the manifest (`UploadFaithful`). Two calls per run, so the second call starts from the state the first one left. |
| `executor_service_error` | violation | `ds3_get_service`/`ds3_get_bucket` turn MISSING_ARGS, CURL_HANDLE or FAILED_REQUEST into INVALID_XML or success. |
| `executor_large_manifest` | violation | A 3-byte manifest with a 2-byte buffer is uploaded as `a b a` instead of `a b c`. |
| `header_interim_fields` | violation | `HTTP/1.1 100 Continue` followed by one header field: the field arrives while `header_count` is still 0, fails the `HTTP/1.1` prefix test, and the callback aborts a well-formed exchange (`AbortOnlyOnBadStatus`, ds3.c:155-158). |
| `header_continue_leak` | violation | One 100 Continue leaks its `split_result` array (`SplitsFreed`). |
| `request_builder` | pass | Every request the initializers build, with or without an upload callback: the method libcurl sends is the verb signed (`WireMatchesSigned`); a body is sent exactly for PUT/POST with an upload callback, with the declared length (`BodyAsDeclared`); the query string carries every parameter once (`QueryComplete`). |
| `xml_codec` | pass | Indented bucket listings give one object per `<Contents>` (`ObjectCountFaithful`). Bulk responses count only `<Object>` children (`ChunkTotal`). Every list of up to two objects with every 5-bit size survives `%ld` then `strtoul` (`ManifestRoundTrip`). |
| `xml_service_blank` | violation | An indented `ListAllMyBucketsResult` yields phantom buckets (`ServiceListingFaithful`). |
| `xml_empty_leaf` | violation | An empty `Name`, `CreationDate`, `DisplayName`, `ID`, `Key` or `Size` makes a decoder call `strlen`/`strtoul` on NULL (`DecodeNoFault`). |

Each property of a passing run has a mutant in `PROJECT.json`: a plausible
bug in the mapped code that TLC finds. Examples are a dropped skip of
100 Continue, the message taken from the wrong token, a callback that makes
and `strtoul` without its sign.

### Bounds and why they suffice

- **Headers:** two names, two values and two fields cover a new name, a
  replaced name and a second distinct name. One interim response and one
  redirect cover each path that reaches a second status line.
  `MaxFields = 2` keeps the pass run below a third field of one name. A
  third field compares against the freed key of `header_dup_key_uaf`. With
  `MaxFields = 3`, TLC finds that `HeadersFaithful` fails too. That is the
  same defect, so it is reported once. `LatestValueKept` and
  `ImplementsHeaderResponse` still hold there; they are proved for every
  bound.
- **Requests:** two buckets, three objects and the lengths 0, 5 and 7 give
  every initializer several distinct requests. With `AnyTables = TRUE` and
  `MaxParams = 2`, a request may hold any table of up to two keys, in
  every visit order. TLC then finds `QueryComplete` violated:
  `_hash_for_each` never increments `size`, so only one parameter
  survives. No initializer inserts two parameters, so this defect is
  latent (see What is not modelled).
- **Executor:**
  - `BufSize = 2` with manifests of 1 and 2 bytes covers a manifest smaller
    than, and equal to, the buffer;
  - the violation run uses 3 bytes, one more than the buffer;
  - `MaxCalls = 2` covers the first-request initialization and a later
    request.
- **XML:** `MaxKids = 2` children per element, with and without blanks,
  covers an element among whitespace. `W = 5` gives 32 values, which
  reach `2^(W-1)`, where `%ld` turns negative, and `ULONG_MAX`. The
  numerals `"7"`, `"-3"` and `"40"` give a plain value, a wrapped negative
  and an overflow (40 > 31).

## Fairness

None is assumed, and no run checks liveness. A call runs synchronously,
but `curl_easy_perform` waits on the server, and ds3.c sets no
`CURLOPT_TIMEOUT` or low-speed limit. So a server that stops answering
keeps the call inside `Perform` forever, and the code guarantees no
progress to base fairness on. Every run checks safety only.

## What is proved

TLAPS proves the theorems below for every value of the constants that
satisfies the modules' `ASSUME`s. Besides typing, the assumptions a proof
needs are:

- `ContinueAssumption`: if a server may send 100, it is an interim code.
- `NoValueAssumption`: the "no value" marker is not a header value.
- `NullAssumption`, and the `Null \notin` verbs conjunct of
  `BuilderAssumption`: the model's NULL is not a query entry, a query
  string or a method word, as a NULL pointer is none of them.

Each safety theorem has the form `Init => IInv`,
`IInv /\ [Next]_vars => IInv'`, `IInv => P`, closed by `PTL`. Each
inductive invariant was first checked by TLC as an invariant, on the
run's instance and on a wider one: all interim, redirect and bare-status
lines, and fields inside interim responses, for `HeaderParser`; and
`AnyTables = TRUE`, `MaxParams = 2` for `RequestBuilder`.

### HeaderParserProofs

- **`TypeCorrect`:** `Spec => []TypeOK`. It rests on these lemmas:
  - what `Offered` can produce (`OfferedLines`);
  - that `Deliver` keeps the transport types;
  - that `InsertHeader` keeps the table a set of `Entry` records;
  - that the recorded message is the line's words (`MessageIsWords`).
- **`FinalStatusCorrect`:** `Spec => []FinalStatusRecorded`, with no
  hypothesis on the server. The inductive invariant `IInv` is `TypeOK`
  plus two conjuncts:
  - `CodeInv`: once a status is recorded, it is neither 0 nor 100;
  - `StatusInv`: while libcurl delivers the fields of a response, that
    response's status line is the one recorded, or an interim line that
    was skipped while `header_count = 0`.

  Without `StatusInv`, a step that ends the header block cannot tell
  whether the recorded status belongs to the last response.
- **`NoCrashWellBehaved`:** `WellBehavedServer => (Spec => []NoCrash)`.
  A well-behaved server sends:
  - no redirect;
  - no interim code but 100;
  - only `": "` separators and non-empty values;
  - no bare status line.

  The invariant adds `NextStatusFresh`: whenever libcurl is about to hand
  over a status line, `header_count = 0`. Each hypothesis is needed:
  - `header_redirect_crash` breaks the one on redirects;
  - a bare `HTTP/1.1` breaks the one on bare status lines
    (`g_ascii_strtoll(NULL)` at ds3.c:135);
  - a 103 Early Hints response breaks the one on interim codes: it is
    recorded as the status, then the final status line is parsed as a
    field and crashes.
- **`AbortOnlyCorrect`:**
  `PlainHeaderServer => (Spec => []AbortOnlyOnBadStatus)`. The hypothesis
  has three parts, and each is needed:
  - every line ends in CRLF. A bare LF makes `to_read` 1, so ds3.c:111
    aborts on a short line;
  - every status line has a code. A bare `HTTP/1.1` may abort at
    ds3.c:139;
  - interim responses carry no fields. `header_interim_fields` shows a
    field of a 100 Continue aborting the transfer at ds3.c:155-158.

  So the theorem covers a server that sends bare 100 Continues. The case
  where a 100 Continue carries fields is a defect of the code, and no
  theorem hides it.
- **`StatusRecordedOnce`:** `Spec => [][StatusWrite]_vars`, an action
  property. Any step that changes the status code or message takes
  `header_count` from 0 to 1. It follows from `TypeOK` alone. It was
  checked by TLC as a PROPERTY on the wide instance; no run lists it,
  because `FinalStatusRecorded` is the run's question.

### HeaderParserRefinement

- **`ImplementsHeaderResponseCorrect`:**
  `InterimCodes \subseteq {100} => (Spec => ImplementsHeaderResponse)`.
  It follows the usual refinement argument:
  - `Init => HR!Init`;
  - `IInv /\ [Next]_vars => [HR!Next]_HR!vars` (`RefinementStep`), with
    one case per branch of the callback;
  - the `IInv` of `FinalStatusCorrect` as the invariant.

  The steps map as follows:
  - recording a status line is `RecordStatus`;
  - a short line, an abort or a crash is `Fail`;
  - the empty line of the final response is `Complete`;
  - an accepted field is `RecordField`;
  - everything else changes no mapped state.

  `IInv` is needed because the final empty line ends the header block only
  once a status is recorded (`StatusInv`). Two lemmas carry the field
  case. `InsertKeepsOthers` says an insert touches only the entries of
  its own name. `InsertFindsName` says the name then has a value the
  server sent. The proof holds even when the freed-key compare misses,
  because the abstract table asks only for some value.
  The hypothesis is needed. TLC shows the refinement violated when 101
  is an interim code: ds3.c:142 skips only 100, so a 101 or 103 is
  recorded as the status.
- **`LatestValueKeptCorrect`:** `Spec => []LatestValueKept`, with no
  hypothesis. For each name, the table holds the value the current
  response last sent. This holds after a miss on the freed key too, when
  a stale entry may sit beside it. The invariant is
  `TypeOK /\ LatestValueKept`. The field step uses the two insert
  lemmas above.

### ExecutorProofs

- **`TypeCorrect`:** `Spec => []TypeOK`. The `Upload` step needs `SubSeq`
  and concatenation facts from `SequenceTheorems`.
- **`ErrorsPropagate`:** if `Ops` contains neither `get_service` nor
  `get_bucket`, then `Spec => []ErrorReportsCause`. The invariant is
  `TypeOK /\ (pc # "idle" => op \in Ops) /\ ErrorReportsCause`. A step of
  `After` must know that the operation in progress is one of `Ops`.
  `executor_service_error` shows that the hypothesis is needed.
- **`UploadFaithfulWhenFits`:**
  `ManifestsFit => (Spec => []UploadFaithful)`. The hypothesis is that
  every manifest is at most `BufSize` bytes. The invariant `UInv` says:
  - a call starts with nothing sent;
  - during `ds3_bulk`'s exchange the upload has sent nothing or the whole
    manifest;
  - it has sent the whole manifest by the time `curl_easy_perform`'s
    outcome is taken.

  `executor_large_manifest` shows that the hypothesis is needed.

### RequestBuilderProofs

The invariant is `BInv`: the input is one the initializers build, and the
wire is unset or is `Wire(input)`. The work lies in the lemmas:

- **`VerbOptionsEffect`:** for each verb GET, PUT or DELETE and each
  upload choice, the setopt chain sends that verb's word, sends a body
  exactly for a PUT with a callback, and then declares its length.
- **`QuerySingle`:** `GenQueryParams` on a one-entry table. This is
  `FoldLeft` unfolded once.

The theorems are:

- **`WireMatchesSignedCorrect`:** `Spec => []WireMatchesSigned`.
- **`BodyAsDeclaredCorrect`:** `Spec => []BodyAsDeclared`.
- **`QueryCompleteForInitializers`:**
  `~AnyTables => (Spec => []QueryComplete)`. Every initializer inserts at
  most one query parameter, so `_hash_for_each` never advancing `size`
  loses nothing. With `AnyTables` the property is false, as the
  `QueryComplete` hazard records.
- **`TypeCorrectForInitializers`:** `~AnyTables => (Spec => []TypeOK)`.
  It rests on the query-string shape lemma `WireQueryShape`, on
  `InfilesizeCases`, and on `OrderIsSeq` (a visit order of a finite key
  set is a sequence). With `AnyTables`, the type of the query string
  depends on what `FoldLeft` computes over a visit order of any length.
  That needs induction over data, so it stays with TLC.

`VerbOptions` uses disjoint `CASE` guards, which TLC and the prover
read alike. So do `ResponseState` and the decoders of `XmlCodec`, where
the first-match order of the C code is written as `IF`/`ELSE IF`.

### What stays with TLC

- **Liveness:** no liveness property is claimed (see Fairness). Any
  liveness property would also need fairness and ENABLED, which the
  prover cannot handle.
- **Everything about `XmlCodec`:** its numeral parser and printer
  (`DigitPrefix`, `Decimal`) are `RECURSIVE` operators, which take away
  the prover's SMT backend. What a recursive definition computes for
  every input would also need induction over data, which the installed
  provers cannot instantiate.
- **`HeadersFaithful`:** it is false once a name is sent three times (the
  freed-key defect), so it is not true for every bound. A proof
  restricted to `MaxFields <= 2` would only restate the run's bound.
  `LatestValueKept` is the part of it that holds for every bound, and it
  is proved.
- **`QueryComplete` for arbitrary tables:** false, and shown false by TLC.

## What is not modelled

- **Request signing:** the date string, HMAC-SHA1 and base64 of
  `_net_compute_signature` are formatting and cryptography. Only what is
  signed is modelled.
- **Client and credential constructors:** `ds3_init_client`,
  `ds3_create_creds` and the setters copy strings into a struct.
- **The `ds3_free_*` functions and the file callbacks:** memory ownership
  is modelled only where a defect shows (`leaked_splits`, the freed header
  key). The error leaked by `ds3_get_service` is reported with
  `executor_service_error`.
- **`ds3_cleanup`:** it calls `curl_global_cleanup` while `_init_curl`'s
  flag stays set. This is harmless: `curl_easy_init` runs
  `curl_global_init` itself when libcurl is not initialized.
- **POST uploads and multi-parameter queries:** `CURLOPT_POST` followed
  by `CURLOPT_UPLOAD` would be sent as PUT and signed as POST, and
  `_hash_for_each` keeps one parameter of a larger table. Neither can
  happen: `struct _ds3_request` is private to ds3.c, and no initializer
  builds a POST or a table of two parameters. So neither is listed as a
  hazard. `WireMatchesSigned` and `QueryComplete` would catch them if an
  initializer did.
- **Concurrent first requests:** the spec makes callers serialize them.
