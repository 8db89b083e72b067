------------------------ MODULE RequestBuilderProofs ------------------------
(***************************************************************************)
(* Proofs about RequestBuilder: for every bucket, object, length and      *)
(* query table, the request _net_process_request puts on the wire is sent *)
(* with the method it was signed with, and carries a body exactly when   *)
(* the operation uploads one.                                             *)
(***************************************************************************)
EXTENDS RequestBuilder, FiniteSetTheorems, TLAPS

\* The caller's input is one the client's operations can produce.
InputOK ==
  /\ input.op \in Ops
  /\ input.req \in Requests(input.op)
  /\ input.wr \in UploadChoices(input.op)
  /\ input.order \in SetToSeqs(DOMAIN input.req.query)

\* The inductive invariant: the input is fixed and the wire, once built,
\* is what _net_process_request builds from it.
BInv == InputOK /\ (wire = Null \/ wire = Wire(input))

\* Every request an operation may be given is a GET, a PUT or a DELETE:
\* no initializer builds a POST or a HEAD.
LEMMA RequestVerbs ==
  ASSUME NEW op \in Ops, NEW r \in Requests(op)
  PROVE  r.verb \in {"GET", "PUT", "DELETE"}
<1>1. \A q \in RequestsFor(op) : q.verb \in {"GET", "PUT", "DELETE"}
  BY DEF RequestsFor, Request, Ops
<1>2. r \in RequestsFor(op) \/ \E q \in RequestsFor(op), t \in Tables : r = [q EXCEPT !.query = t]
  BY DEF Requests
<1>3. ASSUME NEW q \in RequestsFor(op), NEW t
      PROVE  [q EXCEPT !.query = t].verb = q.verb
  BY DEF RequestsFor, Request, Ops
<1>. QED  BY <1>1, <1>2, <1>3

\* What each setopt call the verb switch makes does to a handle.
LEMMA SetoptCases ==
  ASSUME NEW h, NEW x
  PROVE  /\ CurlSetopt(h, "PUT", x) = [h EXCEPT !.method = "PUT", !.upload = TRUE]
         /\ CurlSetopt(h, "UPLOAD", x) = [h EXCEPT !.method = "PUT", !.upload = TRUE]
         /\ CurlSetopt(h, "CUSTOMREQUEST", x) = [h EXCEPT !.custom = x]
         /\ CurlSetopt(h, "INFILESIZE", x) = [h EXCEPT !.infilesize = x]
BY DEF CurlSetopt

\* The method word a handle puts on the request line, and whether it
\* sends a body.
SentMethod(h) == IF h.custom = Null THEN h.method ELSE h.custom
SendsBody(h) == h.upload \/ h.method = "POST"

\* The handle the verb switch leaves, for each verb an initializer builds,
\* with and without an upload callback: it sends that verb, with a body
\* of the declared length exactly when a PUT has an upload callback.
LEMMA VerbOptionsEffect ==
  ASSUME NEW v \in {"GET", "PUT", "DELETE"}, NEW w \in BOOLEAN, NEW n
  PROVE  /\ SentMethod(VerbOptions(FreshHandle, v, n, w)) = v
         /\ SendsBody(VerbOptions(FreshHandle, v, n, w)) <=> (w /\ v \in {"PUT", "POST"})
         /\ SendsBody(VerbOptions(FreshHandle, v, n, w)) =>
              VerbOptions(FreshHandle, v, n, w).infilesize = n
<1>1. CASE v = "PUT" /\ w
  <2>. DEFINE h1 == CurlSetopt(FreshHandle, "PUT", TRUE)
              h2 == CurlSetopt(h1, "UPLOAD", TRUE)
              h3 == CurlSetopt(h2, "INFILESIZE", n)
  <2>1. VerbOptions(FreshHandle, v, n, w) = h3
    BY <1>1 DEF VerbOptions
  <2>2. h1 = [FreshHandle EXCEPT !.method = "PUT", !.upload = TRUE]
    BY SetoptCases
  <2>3. h1.method = "PUT" /\ h1.custom = Null /\ h1.upload = TRUE
    BY <2>2 DEF FreshHandle
  <2>4. h2 = [h1 EXCEPT !.method = "PUT", !.upload = TRUE]
    BY SetoptCases
  <2>5. h2.method = "PUT" /\ h2.custom = Null /\ h2.upload = TRUE
    BY <2>2, <2>4 DEF FreshHandle
  <2>6. h3 = [h2 EXCEPT !.infilesize = n]
    BY SetoptCases
  <2>7. h3.method = "PUT" /\ h3.custom = Null /\ h3.upload = TRUE /\ h3.infilesize = n
    BY <2>2, <2>4, <2>6 DEF FreshHandle
  <2>. QED  BY <2>1, <2>7, <1>1 DEF SentMethod, SendsBody
<1>2. CASE v \in {"PUT", "DELETE"} /\ ~(v = "PUT" /\ w)
  <2>1. VerbOptions(FreshHandle, v, n, w) = CurlSetopt(FreshHandle, "CUSTOMREQUEST", v)
    BY <1>2 DEF VerbOptions
  <2>2. CurlSetopt(FreshHandle, "CUSTOMREQUEST", v) = [FreshHandle EXCEPT !.custom = v]
    BY SetoptCases
  <2>3. LET h == [FreshHandle EXCEPT !.custom = v]
        IN  h.method = "GET" /\ h.custom = v /\ h.upload = FALSE
    BY DEF FreshHandle
  <2>. QED  BY <2>1, <2>2, <2>3, <1>2, BuilderAssumption DEF SentMethod, SendsBody
<1>3. CASE v = "GET"
  <2>1. VerbOptions(FreshHandle, v, n, w) = FreshHandle
    BY <1>3 DEF VerbOptions
  <2>. QED  BY <2>1, <1>3 DEF FreshHandle, SentMethod, SendsBody
<1>. QED  BY <1>1, <1>2, <1>3

\* Every built wire satisfies both properties.
LEMMA WireCorrect ==
  ASSUME InputOK
  PROVE  /\ Wire(input).method = Wire(input).signed.verb
         /\ Wire(input).body <=> (input.wr /\ input.req.verb \in {"PUT", "POST"})
         /\ Wire(input).body => Wire(input).infilesize = input.req.length
<1>1. input.req.verb \in {"GET", "PUT", "DELETE"}
  BY RequestVerbs DEF InputOK
<1>2. input.wr \in BOOLEAN
  BY DEF InputOK, UploadChoices, Ops
<1>. DEFINE h == VerbOptions(FreshHandle, input.req.verb, input.req.length, input.wr)
<1>3. /\ Wire(input).method = SentMethod(h)
      /\ Wire(input).body = SendsBody(h)
      /\ Wire(input).infilesize = h.infilesize
      /\ Wire(input).signed.verb = input.req.verb
  BY DEF Wire, SentMethod, SendsBody, StringToSign, NetGetVerb
<1>4. /\ SentMethod(h) = input.req.verb
      /\ SendsBody(h) <=> (input.wr /\ input.req.verb \in {"PUT", "POST"})
      /\ SendsBody(h) => h.infilesize = input.req.length
  BY <1>1, <1>2, VerbOptionsEffect
<1>. QED  BY <1>3, <1>4

-----------------------------------------------------------------------------
(* The query string of the tables the initializers build.                *)

\* The query tables ds3_init_* build: none, or the single "operation"
\* parameter of ds3_init_get_bulk and ds3_init_put_bulk (ds3.c:535, 544).
LEMMA InitializerQueries ==
  ASSUME NEW op \in Ops, NEW r \in RequestsFor(op)
  PROVE  \/ r.query = NoParams
         \/ \E s \in {"start_bulk_get", "start_bulk_put"} :
              r.query = [x \in {"operation"} |-> s]
BY DEF RequestsFor, Request, Ops

\* An empty table gives no query string (ds3.c:266, 320).
LEMMA QueryEmpty ==
  ASSUME NEW ord
  PROVE  GenQueryParams(NoParams, ord) = Null
<1>1. DOMAIN NoParams = {}
  BY DEF NoParams
<1>2. ~(Cardinality(DOMAIN NoParams) > 0)
  BY <1>1, FS_EmptySet
<1>. QED  BY <1>2, Zenon DEF GenQueryParams

\* A one-parameter table gives the one entry "key=value": the fold of
\* _hash_for_each over a single key stores it at entries[0], and
\* g_strjoinv stops at the NULL after it.
LEMMA QuerySingle ==
  ASSUME NEW k, NEW v, <<k, v>> # Null, NEW Tbl, Tbl = [x \in {k} |-> v],
         NEW ord \in SetToSeqs({k})
  PROVE  GenQueryParams(Tbl, ord) = [i \in 1..1 |-> <<k, v>>]
<1>. DEFINE q0 == [entries |-> [i \in 1..Cardinality(DOMAIN Tbl) + 1 |-> Null], size |-> 0]
            S == DOMAIN ord
            F(it) == it = [s \in SUBSET S |-> IF s = {} THEN q0
                              ELSE LET y == Max(s)
                                   IN HashForEach(it[s \ {y}], ord[y], Tbl[ord[y]])]
            r1 == HashForEach(q0, k, v)
<1>1. DOMAIN Tbl = {k} /\ Tbl[k] = v
  OBVIOUS
<1>2. Cardinality(DOMAIN Tbl) = 1
  BY <1>1, FS_Singleton
<1>7. DOMAIN ord = 1..1 /\ ord[1] = k
  BY <1>1, <1>2 DEF SetToSeqs
<1>3. GenQueryParams(Tbl, ord) = StrJoinv((CHOOSE it : F(it))[S].entries)
  BY <1>2 DEF GenQueryParams, FoldLeft, MapThenFoldSet
<1>4. (CHOOSE it : F(it))[S] = r1
  <2>1. S = {1} /\ SUBSET S = {{}, {1}} /\ Max({1}) = 1 /\ {1} \ {1} = {} /\ ord[1] = k
    BY <1>7 DEF Max
  <2>. DEFINE G == [s \in SUBSET S |-> IF s = {} THEN q0 ELSE r1]
  <2>2. F(G)
    <3>1. G[{}] = q0 /\ G[{1}] = r1
      BY <2>1
    <3>2. HashForEach(G[{1} \ {Max({1})}], ord[Max({1})], Tbl[ord[Max({1})]]) = r1
      BY <2>1, <3>1, <1>1
    <3>3. \A s \in SUBSET S :
            G[s] = IF s = {} THEN q0
                   ELSE LET y == Max(s) IN HashForEach(G[s \ {y}], ord[y], Tbl[ord[y]])
      BY <2>1, <3>1, <3>2
    <3>. QED BY <3>3
  <2>3. ASSUME NEW it, F(it) PROVE it[S] = r1
    <3>1. it[{}] = q0
      BY <2>1, <2>3
    <3>2. it[{1}] = HashForEach(it[{1} \ {Max({1})}], ord[Max({1})], Tbl[ord[Max({1})]])
      BY <2>1, <2>3
    <3>4. {1} \ {Max({1})} = {} /\ ord[Max({1})] = k /\ Tbl[ord[Max({1})]] = v
      BY <2>1, <1>1
    <3>5. it[{1} \ {Max({1})}] = q0
      BY <3>1, <3>4
    <3>3. it[{1}] = HashForEach(q0, k, v)
      BY <3>2, <3>4, <3>5
    <3>. QED BY <3>3, <2>1
  <2>4. F(CHOOSE it : F(it))
    BY <2>2, Zenon
  <2>. QED BY <2>3, <2>4
<1>. DEFINE e == r1.entries
<1>. HIDE DEF e, r1, q0
<1>5. DOMAIN e = 1..2 /\ e[1] = <<k, v>> /\ e[2] = Null
  <2>1. q0.size = 0 /\ q0.entries = [i \in 1..2 |-> Null]
    BY <1>2 DEF q0
  <2>2. r1 = [q0 EXCEPT !.entries[1] = <<k, v>>]
    BY <2>1 DEF HashForEach, r1
  <2>3. e = [q0.entries EXCEPT ![1] = <<k, v>>]
    BY <2>2 DEF e
  <2>. QED BY <2>1, <2>3
<1>6. StrJoinv(e) = [i \in 1..1 |-> <<k, v>>]
  <2>1. (CHOOSE i \in DOMAIN e : e[i] = Null /\ \A j \in 1..i-1 : e[j] # Null) = 2
    <3>1. e[2] = Null /\ \A j \in 1..2-1 : e[j] # Null
      BY <1>5
    <3>2. ~(e[1] = Null)
      BY <1>5
    <3>3. \A i \in DOMAIN e : (e[i] = Null /\ \A j \in 1..i-1 : e[j] # Null) => i = 2
      BY <1>5, <3>2
    <3>. QED BY <3>1, <3>3, <1>5
  <2>2. SubSeq(e, 1, 2 - 1) = [i \in 1..1 |-> <<k, v>>]
    BY <1>5
  <2>. QED BY <2>1, <2>2 DEF StrJoinv
<1>. QED BY <1>3, <1>4, <1>6 DEF e

\* The query string the client builds from an initializer's request: none
\* for an empty table, else the one entry "operation=start_bulk_...".
LEMMA WireQueryShape ==
  ASSUME InputOK, ~AnyTables
  PROVE  \/ /\ input.req.query = NoParams
            /\ Wire(input).url.query = << >>
         \/ \E s \in {"start_bulk_get", "start_bulk_put"} :
              /\ input.req.query = [x \in {"operation"} |-> s]
              /\ Wire(input).url.query = [i \in 1..1 |-> <<"operation", s>>]
<1>. DEFINE tbl == input.req.query
            gq == GenQueryParams(tbl, input.order)
            qs == Wire(input).url.query
<1>1. input.req \in RequestsFor(input.op) /\ input.op \in Ops
  BY DEF InputOK, Requests
<1>2. qs = IF gq = Null THEN << >> ELSE gq
  BY DEF Wire, Url
<1>3. input.order \in SetToSeqs(DOMAIN tbl)
  BY DEF InputOK
<1>4. CASE tbl = NoParams
  <2>1. gq = Null
    BY <1>4, QueryEmpty
  <2>. QED  BY <1>2, <2>1, <1>4
<1>5. CASE \E s \in {"start_bulk_get", "start_bulk_put"} : tbl = [x \in {"operation"} |-> s]
  <2>1. PICK s \in {"start_bulk_get", "start_bulk_put"} : tbl = [x \in {"operation"} |-> s]
    BY <1>5
  <2>2. <<"operation", s>> \in QueryPairs
    BY DEF QueryPairs
  <2>3. <<"operation", s>> # Null
    BY <2>2, NullAssumption
  <2>4. input.order \in SetToSeqs({"operation"})
    BY <2>1, <1>3
  <2>5. gq = [i \in 1..1 |-> <<"operation", s>>]
    <3>1. \A k, v, t, o :
            <<k, v>> # Null /\ t = [x \in {k} |-> v] /\ o \in SetToSeqs({k})
              => GenQueryParams(t, o) = [i \in 1..1 |-> <<k, v>>]
      BY QuerySingle
    <3>2. <<"operation", s>> # Null /\ input.req.query = [x \in {"operation"} |-> s]
          /\ input.order \in SetToSeqs({"operation"})
            => GenQueryParams(input.req.query, input.order)
                 = [i \in 1..1 |-> <<"operation", s>>]
      BY <3>1
    <3>. QED  BY <3>2, <2>1, <2>3, <2>4
  <2>6. gq \in Seq(QueryPairs)
    BY <2>2, <2>5
  <2>7. qs = gq
    BY <1>2, <2>6, NullAssumption
  <2>. QED  BY <2>1, <2>5, <2>7
<1>. QED  BY <1>1, <1>4, <1>5, InitializerQueries

\* Every query string the client builds from an initializer's request
\* carries the request's parameters, each once.
LEMMA WireQueryComplete ==
  ASSUME InputOK, ~AnyTables
  PROVE  /\ Len(Wire(input).url.query) = Cardinality(DOMAIN input.req.query)
         /\ {Wire(input).url.query[i] : i \in DOMAIN Wire(input).url.query}
              = {<<k, input.req.query[k]>> : k \in DOMAIN input.req.query}
<1>. DEFINE tbl == input.req.query
            qs == Wire(input).url.query
<1>1. CASE tbl = NoParams /\ qs = << >>
  <2>1. DOMAIN tbl = {}
    BY <1>1 DEF NoParams
  <2>. QED  BY <1>1, <2>1, FS_EmptySet
<1>2. CASE \E s \in {"start_bulk_get", "start_bulk_put"} :
             tbl = [x \in {"operation"} |-> s] /\ qs = [i \in 1..1 |-> <<"operation", s>>]
  <2>1. PICK s \in {"start_bulk_get", "start_bulk_put"} :
          tbl = [x \in {"operation"} |-> s] /\ qs = [i \in 1..1 |-> <<"operation", s>>]
    BY <1>2
  <2>2. qs \in Seq(QueryPairs)
    BY <2>1 DEF QueryPairs
  <2>3. Len(qs) = 1 /\ {qs[i] : i \in DOMAIN qs} = {<<"operation", s>>}
    BY <2>1, <2>2
  <2>4. DOMAIN tbl = {"operation"} /\ tbl["operation"] = s
    BY <2>1
  <2>. QED  BY <2>3, <2>4, FS_Singleton
<1>. QED  BY <1>1, <1>2, WireQueryShape

-----------------------------------------------------------------------------
(* Types of what goes on the wire.                                        *)

\* The length an initializer declares: the caller's for ds3_init_put_object,
\* else the 0 of _common_request_init's memset.
LEMMA RequestLength ==
  ASSUME NEW op \in Ops, NEW r \in RequestsFor(op)
  PROVE  r.length \in Lengths \cup {0}
BY DEF RequestsFor, Request, Ops

\* CURLOPT_INFILESIZE is the declared length when it is set at all; a
\* fresh handle has none (NULL here).
LEMMA InfilesizeCases ==
  ASSUME NEW v \in {"GET", "PUT", "DELETE"}, NEW w \in BOOLEAN, NEW n
  PROVE  VerbOptions(FreshHandle, v, n, w).infilesize \in {n, Null}
<1>1. CASE v = "PUT" /\ w
  <2>. DEFINE h1 == CurlSetopt(FreshHandle, "PUT", TRUE)
              h2 == CurlSetopt(h1, "UPLOAD", TRUE)
  <2>1. VerbOptions(FreshHandle, v, n, w) = CurlSetopt(h2, "INFILESIZE", n)
    BY <1>1 DEF VerbOptions
  <2>2. CurlSetopt(h2, "INFILESIZE", n) = [h2 EXCEPT !.infilesize = n]
    BY SetoptCases
  <2>3. h2 = [h1 EXCEPT !.method = "PUT", !.upload = TRUE]
        /\ h1 = [FreshHandle EXCEPT !.method = "PUT", !.upload = TRUE]
    BY SetoptCases
  <2>4. "infilesize" \in DOMAIN h2
    BY <2>3 DEF FreshHandle
  <2>. QED  BY <2>1, <2>2, <2>4
<1>2. CASE v \in {"PUT", "DELETE"} /\ ~(v = "PUT" /\ w)
  <2>1. VerbOptions(FreshHandle, v, n, w) = [FreshHandle EXCEPT !.custom = v]
    BY <1>2, SetoptCases DEF VerbOptions
  <2>. QED  BY <2>1 DEF FreshHandle
<1>3. CASE v = "GET"
  <2>1. VerbOptions(FreshHandle, v, n, w) = FreshHandle
    BY <1>3 DEF VerbOptions
  <2>. QED  BY <2>1 DEF FreshHandle
<1>. QED  BY <1>1, <1>2, <1>3

\* A visit order of a finite key set is a sequence of its keys.
LEMMA OrderIsSeq ==
  ASSUME NEW S, IsFiniteSet(S), NEW o \in SetToSeqs(S)
  PROVE  o \in Seq(S)
<1>1. Cardinality(S) \in Nat
  BY FS_CardinalityType
<1>2. o \in [1..Cardinality(S) -> S]
  BY DEF SetToSeqs
<1>. QED  BY <1>1, <1>2

\* The caller's input and the wire built from it are well typed.
LEMMA WireTypes ==
  ASSUME InputOK, ~AnyTables
  PROVE  /\ input.order \in Seq(DOMAIN input.req.query)
         /\ Wire(input).method \in Methods
         /\ Wire(input).body \in BOOLEAN
         /\ Wire(input).infilesize \in Lengths \cup {0, Null}
         /\ Wire(input).url.query \in Seq(QueryPairs)
         /\ Wire(input).signed.verb \in Methods
<1>1. input.req \in RequestsFor(input.op) /\ input.op \in Ops
  BY DEF InputOK, Requests
<1>2. input.req.verb \in {"GET", "PUT", "DELETE"} /\ input.wr \in BOOLEAN
  BY RequestVerbs, <1>1 DEF InputOK, UploadChoices, Ops
<1>3. input.order \in Seq(DOMAIN input.req.query)
  <2>1. IsFiniteSet(DOMAIN input.req.query)
    <3>1. CASE input.req.query = NoParams
      BY <3>1, FS_EmptySet DEF NoParams
    <3>2. CASE \E s \in {"start_bulk_get", "start_bulk_put"} :
                 input.req.query = [x \in {"operation"} |-> s]
      BY <3>2, FS_Singleton
    <3>. QED  BY <1>1, <3>1, <3>2, InitializerQueries
  <2>. QED  BY <2>1, OrderIsSeq DEF InputOK
<1>4. Wire(input).signed.verb = input.req.verb /\ Wire(input).method = input.req.verb
  BY WireCorrect DEF Wire, StringToSign, NetGetVerb
<1>5. Wire(input).infilesize \in Lengths \cup {0, Null}
  <2>1. Wire(input).infilesize
          = VerbOptions(FreshHandle, input.req.verb, input.req.length, input.wr).infilesize
    BY DEF Wire
  <2>2. input.req.length \in Lengths \cup {0}
    BY <1>1, RequestLength
  <2>. QED  BY <1>2, <2>1, <2>2, InfilesizeCases
<1>6. Wire(input).url.query \in Seq(QueryPairs)
  <2>1. CASE Wire(input).url.query = << >>
    BY <2>1
  <2>2. CASE \E s \in {"start_bulk_get", "start_bulk_put"} :
               Wire(input).url.query = [i \in 1..1 |-> <<"operation", s>>]
    <3>1. PICK s \in {"start_bulk_get", "start_bulk_put"} :
                 Wire(input).url.query = [i \in 1..1 |-> <<"operation", s>>]
      BY <2>2
    <3>2. <<"operation", s>> \in QueryPairs
      BY DEF QueryPairs
    <3>. QED  BY <3>1, <3>2
  <2>. QED  BY <2>1, <2>2, WireQueryShape
<1>7. Wire(input).body \in BOOLEAN
  BY DEF Wire
<1>. QED  BY <1>2, <1>3, <1>4, <1>5, <1>6, <1>7 DEF Methods

\* The invariant holds initially.
LEMMA BInvInit == Init => BInv
BY DEF Init, BInv, InputOK

\* Each step keeps it: Build writes Wire(input), Done changes nothing.
LEMMA BInvStep == BInv /\ [Next]_vars => BInv'
BY DEF BInv, InputOK, Next, Build, Done, vars

\* The method libcurl sends is the verb the request was signed with
\* (_net_process_request's verb switch against _net_compute_signature),
\* for every bucket, object, length and query table.
THEOREM WireMatchesSignedCorrect == Spec => []WireMatchesSigned
<1>1. BInv => WireMatchesSigned
  BY WireCorrect DEF BInv, WireMatchesSigned
<1>. QED  BY <1>1, BInvInit, BInvStep, PTL DEF Spec

\* A request carries a body exactly when a PUT or POST is given an upload
\* callback, and then declares the request's length (CURLOPT_INFILESIZE).
THEOREM BodyAsDeclaredCorrect == Spec => []BodyAsDeclared
<1>1. BInv => BodyAsDeclared
  BY WireCorrect DEF BInv, BodyAsDeclared
<1>. QED  BY <1>1, BInvInit, BInvStep, PTL DEF Spec

\* The query string _net_gen_query_params builds holds every parameter
\* of the request's table exactly once, for every request an initializer
\* builds: at most one parameter, so _hash_for_each never advancing
\* entries->size (ds3.c:257-263) loses nothing.
THEOREM QueryCompleteForInitializers == ~AnyTables => (Spec => []QueryComplete)
<1> SUFFICES ASSUME ~AnyTables PROVE Spec => []QueryComplete
  OBVIOUS
<1>1. BInv => QueryComplete
  BY WireQueryComplete DEF BInv, QueryComplete
<1>. QED  BY <1>1, BInvInit, BInvStep, PTL DEF Spec

\* Every state of the builder is well typed for the requests the
\* initializers build: a verb libcurl and the signer know, a boolean body
\* flag, the declared length or none, and a query string of key=value
\* pairs.
THEOREM TypeCorrectForInitializers == ~AnyTables => (Spec => []TypeOK)
<1> SUFFICES ASSUME ~AnyTables PROVE Spec => []TypeOK
  OBVIOUS
<1>1. BInv => TypeOK
  BY WireTypes DEF BInv, TypeOK, InputOK
<1>. QED  BY <1>1, BInvInit, BInvStep, PTL DEF Spec

=============================================================================
